---- MODULE Spec2Model ----
(***************************************************************************)
(* Verification model of the chess engine (zobrist.py, IA_LA_VRAIE.py,     *)
(* training.py, main.py, openings.py).                                     *)
(*                                                                         *)
(* Layer 1 (SpecHash): a concrete 8x8 board with the python-chess          *)
(* push/pop semantics, on which hash_zobrist and update_cle are run.       *)
(* A Zobrist key is modelled by its identity (an index into the key        *)
(* tables) and a hash by the set of keys XOR-ed into it an odd number of   *)
(* times: XOR is symmetric difference.  Two hashes that are equal in this  *)
(* model are equal for every choice of the random 64-bit keys, and two     *)
(* hashes that differ here differ for independent keys.                    *)
(***************************************************************************)
EXTENDS Integers, Sequences, FiniteSets, TLC

VARIABLES
    board, cle, hply,                     \* the hash harness: a chess.Board and its running key
    partie, gboard, ia, driver, nb_coups, last,
                                          \* a game between two players and the last coup
    q,                                    \* one quiescence call, frame by frame
    out,                                  \* the evaluator harness: what was computed for board
    mem                                   \* the weights: memoire.json and the WEIGHTS global

hvars == <<board, cle, hply>>
svars == <<partie, gboard, ia, driver, nb_coups, last>>
pvars == <<out, mem>>
vars == <<board, cle, hply, partie, gboard, ia, driver, nb_coups, last, q, out, mem>>
\* the value of the variables a specification does not use
Idle == <<>>

(***************************************************************************)
(* Bounds                                                                  *)
(***************************************************************************)
MaxPlies == 2

(***************************************************************************)
(* python-chess constants                                                  *)
(***************************************************************************)
WHITE == TRUE
BLACK == FALSE
PAWN == 1
KNIGHT == 2
BISHOP == 3
ROOK == 4
QUEEN == 5
KING == 6
A1 == 0
C1 == 2
D1 == 3
F1 == 5
G1 == 6
H1 == 7
A8 == 56
D8 == 59
F8 == 61
G8 == 62
H8 == 63
NoSquare == 64
SQUARES == 0..63
Empty == "."

square_file(s) == s % 8
square_rank(s) == s \div 8
Sq(f, r) == r * 8 + f
Abs(x) == IF x < 0 THEN -x ELSE x
Sgn(x) == IF x < 0 THEN -1 ELSE IF x > 0 THEN 1 ELSE 0
Max2(x, y) == IF x >= y THEN x ELSE y
Min2(x, y) == IF x <= y THEN x ELSE y

WhiteSyms == <<"P", "N", "B", "R", "Q", "K">>
BlackSyms == <<"p", "n", "b", "r", "q", "k">>
\* chess.Piece(piece_type, color).symbol()
Symbol(pt, color) == IF color = WHITE THEN WhiteSyms[pt] ELSE BlackSyms[pt]
ColorOf(sym) == \E i \in 1..6 : WhiteSyms[i] = sym
TypeOf(sym) == CHOOSE i \in 1..6 : WhiteSyms[i] = sym \/ BlackSyms[i] = sym

\* board.piece_at(square): a symbol, or Empty for None
piece_at(b, s) == b.sq[s]
Occupied(b, s) == b.sq[s] # Empty
IsPiece(b, s, pt, color) == b.sq[s] = Symbol(pt, color)
OwnAt(b, s, color) == Occupied(b, s) /\ ColorOf(b.sq[s]) = color

(***************************************************************************)
(* Attacks (python-chess attackers_mask / is_attacked_by)                  *)
(***************************************************************************)
Aligned(a, c) ==
    LET df == square_file(c) - square_file(a)
        dr == square_rank(c) - square_rank(a)
    IN  a # c /\ (df = 0 \/ dr = 0 \/ Abs(df) = Abs(dr))
Orthogonal(a, c) == square_file(a) = square_file(c) \/ square_rank(a) = square_rank(c)
\* chess.between(a, c)
Between(a, c) ==
    LET df == square_file(c) - square_file(a)
        dr == square_rank(c) - square_rank(a)
        n  == Max2(Abs(df), Abs(dr))
    IN  IF ~Aligned(a, c) THEN {}
        ELSE { Sq(square_file(a) + k * Sgn(df), square_rank(a) + k * Sgn(dr)) : k \in 1..(n - 1) }
KnightJump(a, c) ==
    LET df == Abs(square_file(c) - square_file(a))
        dr == Abs(square_rank(c) - square_rank(a))
    IN  (df = 1 /\ dr = 2) \/ (df = 2 /\ dr = 1)
KingStep(a, c) ==
    a # c /\ Abs(square_file(c) - square_file(a)) <= 1 /\ Abs(square_rank(c) - square_rank(a)) <= 1
\* a pawn of `color` on a attacks c
PawnAttack(a, c, color) ==
    /\ Abs(square_file(c) - square_file(a)) = 1
    /\ square_rank(c) - square_rank(a) = (IF color = WHITE THEN 1 ELSE -1)

\* the piece standing on a (on squares sq) attacks square c
AttacksFrom(sq, a, c) ==
    LET sym == sq[a]
        pt  == TypeOf(sym)
        clear == \A m \in Between(a, c) : sq[m] = Empty
    IN  /\ sym # Empty
        /\ CASE pt = PAWN   -> PawnAttack(a, c, ColorOf(sym))
             [] pt = KNIGHT -> KnightJump(a, c)
             [] pt = KING   -> KingStep(a, c)
             [] pt = BISHOP -> Aligned(a, c) /\ ~Orthogonal(a, c) /\ clear
             [] pt = ROOK   -> Aligned(a, c) /\ Orthogonal(a, c) /\ clear
             [] OTHER       -> Aligned(a, c) /\ clear
is_attacked_by(sq, color, c) ==
    \E a \in SQUARES : sq[a] # Empty /\ ColorOf(sq[a]) = color /\ AttacksFrom(sq, a, c)
KingSquare(sq, color) ==
    IF \E s \in SQUARES : sq[s] = Symbol(KING, color)
    THEN CHOOSE s \in SQUARES : sq[s] = Symbol(KING, color)
    ELSE NoSquare
\* board.is_check() for the side `color` on squares sq
InCheck(sq, color) ==
    KingSquare(sq, color) # NoSquare /\ is_attacked_by(sq, ~color, KingSquare(sq, color))

(***************************************************************************)
(* Castling rights (python-chess clean_castling_rights, has_*_rights)      *)
(***************************************************************************)
BackRank(color) == IF color = WHITE THEN 0 ELSE 7
Corner(color, kingside) == Sq(IF kingside THEN 7 ELSE 0, BackRank(color))
KingHome(color) == Sq(4, BackRank(color))
\* the rook squares whose right is still valid on the squares of b
clean_castling_rights(b) ==
    { r \in b.castling_rights :
        \E color \in BOOLEAN :
            /\ r \in {Corner(color, TRUE), Corner(color, FALSE)}
            /\ b.sq[r] = Symbol(ROOK, color)
            /\ b.sq[KingHome(color)] = Symbol(KING, color) }
has_kingside_castling_rights(b, color) == Corner(color, TRUE) \in clean_castling_rights(b)
has_queenside_castling_rights(b, color) == Corner(color, FALSE) \in clean_castling_rights(b)

(***************************************************************************)
(* Moves: [from_square, to_square, promotion]; promotion 0 is None         *)
(***************************************************************************)
Move(f, t, p) == [from_square |-> f, to_square |-> t, promotion |-> p]
NullMove == Move(0, 0, 0)

\* board.is_en_passant(move)
is_en_passant(b, m) ==
    /\ b.ep_square = m.to_square
    /\ b.sq[m.from_square] \in {"P", "p"}
    /\ Abs(m.to_square - m.from_square) \in {7, 9}
    /\ ~Occupied(b, m.to_square)
\* board.is_capture(move)
is_capture(b, m) == OwnAt(b, m.to_square, ~b.turn) \/ is_en_passant(b, m)
\* board.is_castling(move)
is_castling(b, m) ==
    /\ b.sq[m.from_square] \in {"K", "k"}
    /\ \/ Abs(square_file(m.from_square) - square_file(m.to_square)) > 1
       \/ b.sq[m.to_square] = Symbol(ROOK, b.turn)

\* the squares after the move (python-chess push, piece placement part)
SquaresAfter(b, m) ==
    LET f == m.from_square
        t == m.to_square
        sym == b.sq[f]
        arriving == IF m.promotion # 0 THEN Symbol(m.promotion, b.turn) ELSE sym
        kside == square_file(t) > square_file(f)
        rk == BackRank(b.turn)
    IN  IF is_castling(b, m)
        THEN [s \in SQUARES |->
                IF s = f \/ s = Corner(b.turn, kside) THEN Empty
                ELSE IF s = Sq(IF kside THEN 6 ELSE 2, rk) THEN sym
                ELSE IF s = Sq(IF kside THEN 5 ELSE 3, rk) THEN Symbol(ROOK, b.turn)
                ELSE b.sq[s]]
        ELSE [s \in SQUARES |->
                IF s = f THEN Empty
                ELSE IF s = t THEN arriving
                ELSE IF is_en_passant(b, m) /\ s = t + (IF b.turn = WHITE THEN -8 ELSE 8) THEN Empty
                ELSE b.sq[s]]

\* board.push(move): the state is saved on the stack, then changed
push(b, m) ==
    LET saved == [sq |-> b.sq, turn |-> b.turn,
                  castling_rights |-> b.castling_rights, ep_square |-> b.ep_square]
        f == m.from_square
        t == m.to_square
        sym == b.sq[f]
        \* the king's castling move is played onto its own rook internally
        rookSq == IF is_castling(b, m)
                  THEN {Corner(b.turn, square_file(t) > square_file(f))} ELSE {}
        cr1 == (clean_castling_rights(b) \ {f, t}) \ rookSq
        cr2 == IF sym \in {"K", "k"}
               THEN { r \in cr1 : square_rank(r) # BackRank(b.turn) } ELSE cr1
        ep == IF sym = "P" /\ t - f = 16 /\ square_rank(f) = 1 THEN f + 8
              ELSE IF sym = "p" /\ t - f = -16 /\ square_rank(f) = 6 THEN f - 8
              ELSE NoSquare
    IN  IF m = NullMove
        THEN [sq |-> b.sq, turn |-> ~b.turn,
              castling_rights |-> clean_castling_rights(b), ep_square |-> NoSquare,
              move_stack |-> Append(b.move_stack, m), stack |-> Append(b.stack, saved)]
        ELSE [sq |-> SquaresAfter(b, m), turn |-> ~b.turn,
              castling_rights |-> cr2, ep_square |-> ep,
              move_stack |-> Append(b.move_stack, m), stack |-> Append(b.stack, saved)]
\* board.pop(): restores the saved state
pop(b) ==
    LET saved == b.stack[Len(b.stack)]
    IN  [sq |-> saved.sq, turn |-> saved.turn,
         castling_rights |-> saved.castling_rights, ep_square |-> saved.ep_square,
         move_stack |-> SubSeq(b.move_stack, 1, Len(b.move_stack) - 1),
         stack |-> SubSeq(b.stack, 1, Len(b.stack) - 1)]

(***************************************************************************)
(* Legal moves (python-chess generate_legal_moves)                         *)
(***************************************************************************)
PawnTargets(b, f) ==
    LET color == b.turn
        up == IF color = WHITE THEN 8 ELSE -8
        startRank == IF color = WHITE THEN 1 ELSE 6
    IN  { t \in SQUARES :
            \/ t = f + up /\ ~Occupied(b, t)
            \/ /\ t = f + 2 * up /\ square_rank(f) = startRank
               /\ ~Occupied(b, f + up) /\ ~Occupied(b, t)
            \/ /\ PawnAttack(f, t, color)
               /\ (OwnAt(b, t, ~color) \/ (t = b.ep_square /\ ~Occupied(b, t))) }
PieceTargets(b, f) ==
    IF TypeOf(b.sq[f]) = PAWN THEN PawnTargets(b, f)
    ELSE { t \in SQUARES : AttacksFrom(b.sq, f, t) /\ ~OwnAt(b, t, b.turn) }
Promotions(b, f, t) ==
    IF TypeOf(b.sq[f]) = PAWN /\ square_rank(t) \in {0, 7}
    THEN {QUEEN, ROOK, BISHOP, KNIGHT} ELSE {0}
PseudoLegal(b) ==
    { Move(f, t, p) : <<f, t, p>> \in
        UNION { UNION { { <<f, t, p>> : p \in Promotions(b, f, t) } : t \in PieceTargets(b, f) }
                : f \in { s \in SQUARES : OwnAt(b, s, b.turn) } } }
\* generate_castling_moves: the path is free, the king neither stands in,
\* passes through nor lands on an attacked square
CastlingMoves(b) ==
    LET color == b.turn
        k == KingHome(color)
        ok(kside) ==
            LET rook == Corner(color, kside)
                kto == Sq(IF kside THEN 6 ELSE 2, BackRank(color))
                rto == Sq(IF kside THEN 5 ELSE 3, BackRank(color))
                path == Between(k, kto) \cup Between(rook, rto) \cup {kto, rto}
                bare == [s \in SQUARES |-> IF s = k THEN Empty ELSE b.sq[s]]
                after == [s \in SQUARES |-> IF s \in {k, rook} THEN Empty
                                            ELSE IF s = rto THEN Symbol(ROOK, color)
                                            ELSE b.sq[s]]
            IN  /\ rook \in clean_castling_rights(b)
                /\ \A s \in path \ {k, rook} : ~Occupied(b, s)
                /\ \A s \in Between(k, kto) \cup {k} : ~is_attacked_by(bare, ~color, s)
                /\ ~is_attacked_by(after, ~color, kto)
    IN  { Move(k, Sq(IF kside THEN 6 ELSE 2, BackRank(color)), 0) : kside \in { x \in BOOLEAN : ok(x) } }
legal_moves(b) ==
    { m \in PseudoLegal(b) : ~InCheck(SquaresAfter(b, m), b.turn) } \cup CastlingMoves(b)

(***************************************************************************)
(* Zobrist hashing (zobrist.py)                                            *)
(***************************************************************************)
\* INDEX_PIECES: 'P' -> 0 ... 'K' -> 5, 'p' -> 6 ... 'k' -> 11
INDEX_PIECES(sym) == IF ColorOf(sym) = WHITE THEN TypeOf(sym) - 1 ELSE TypeOf(sym) + 5
\* the identities of the keys made by creer_zobrist
ZOBRIST_PIECES(square, idx) == square * 12 + idx
ZOBRIST_ROQUES(i) == 768 + i
ZOBRIST_EN_PASSANT(file) == 772 + file
ZOBRIST_TOUR == 64 * 12 + 4 + 8
\* h ^= k
Xor(h, k) == IF k \in h THEN h \ {k} ELSE h \cup {k}
XorIf(cond, h, k) == IF cond THEN Xor(h, k) ELSE h
SymDiff(x, y) == (x \ y) \cup (y \ x)

\* the loop over chess.SQUARES: each occupied square XORs one key, and the
\* keys of different squares are different keys
XorPieces(b) ==
    { ZOBRIST_PIECES(s, INDEX_PIECES(piece_at(b, s))) : s \in { x \in SQUARES : piece_at(b, x) # Empty } }

hash_zobrist(b) ==
    LET h0 == XorPieces(b)
        h1 == XorIf(has_kingside_castling_rights(b, WHITE), h0, ZOBRIST_ROQUES(0))
        h2 == XorIf(has_queenside_castling_rights(b, WHITE), h1, ZOBRIST_ROQUES(1))
        h3 == XorIf(has_kingside_castling_rights(b, BLACK), h2, ZOBRIST_ROQUES(2))
        h4 == XorIf(has_queenside_castling_rights(b, BLACK), h3, ZOBRIST_ROQUES(3))
        h5 == XorIf(b.ep_square # NoSquare, h4, ZOBRIST_EN_PASSANT(square_file(b.ep_square)))
    IN  XorIf(b.turn = BLACK, h5, ZOBRIST_TOUR)

\* the square of the captured piece in update_cle
CaptureSquare(b, m) ==
    IF is_en_passant(b, m)
    THEN m.to_square + (IF ColorOf(piece_at(b, m.from_square)) = WHITE THEN -8 ELSE 8)
    ELSE m.to_square
\* (mutant) the kingside rook is put on the king's landing square
CastlingRook_RookOnKingSquare(m) ==
    IF m.to_square = G1 THEN <<H1, G1>>
    ELSE IF m.to_square = C1 THEN <<A1, D1>>
    ELSE IF m.to_square = G8 THEN <<H8, G8>>
    ELSE <<A8, D8>>
\* the rook's <<from, to>> of a castling move in update_cle
CastlingRook(m) ==
    IF m.to_square = G1 THEN <<H1, F1>>
    ELSE IF m.to_square = C1 THEN <<A1, D1>>
    ELSE IF m.to_square = G8 THEN <<H8, F8>>
    ELSE <<A8, D8>>

update_cle(b, key, m) ==
    LET piece == piece_at(b, m.from_square)
        piece_index == INDEX_PIECES(piece)
        k1 == XorIf(b.ep_square # NoSquare, key, ZOBRIST_EN_PASSANT(square_file(b.ep_square)))
        k2 == Xor(k1, ZOBRIST_PIECES(m.from_square, piece_index))
        cap_sq == CaptureSquare(b, m)
        k3 == XorIf(is_capture(b, m), k2,
                    ZOBRIST_PIECES(cap_sq, INDEX_PIECES(piece_at(b, cap_sq))))
        rook_from == CastlingRook(m)[1]
        rook_to == CastlingRook(m)[2]
        r_idx == INDEX_PIECES(piece_at(b, rook_from))
        k4 == IF is_castling(b, m)
              THEN Xor(Xor(k3, ZOBRIST_PIECES(rook_from, r_idx)), ZOBRIST_PIECES(rook_to, r_idx))
              ELSE k3
        k5 == IF m.promotion # 0
              THEN Xor(k4, ZOBRIST_PIECES(m.to_square, INDEX_PIECES(Symbol(m.promotion, ColorOf(piece)))))
              ELSE Xor(k4, ZOBRIST_PIECES(m.to_square, piece_index))
        old == b.castling_rights
        new == push(b, m).castling_rights
        diff == SymDiff(old, new)
        k6 == XorIf(H1 \in diff, k5, ZOBRIST_ROQUES(0))
        k7 == XorIf(A1 \in diff, k6, ZOBRIST_ROQUES(1))
        k8 == XorIf(H8 \in diff, k7, ZOBRIST_ROQUES(2))
        k9 == XorIf(A8 \in diff, k8, ZOBRIST_ROQUES(3))
        k10 == XorIf(TypeOf(piece) = PAWN
                     /\ Abs(square_rank(m.from_square) - square_rank(m.to_square)) = 2,
                     k9, ZOBRIST_EN_PASSANT(square_file(m.to_square)))
    IN  Xor(k10, ZOBRIST_TOUR)

(***************************************************************************)
(* SpecHash: moves are pushed on a concrete board and the key is updated   *)
(* incrementally, as alpha_beta does along a search path.                  *)
(***************************************************************************)
\* a board set up with the given pieces (a set of <<square, symbol>>)
SetBoard(pieces, turn, rights, ep) ==
    [sq |-> [s \in SQUARES |->
                IF \E x \in pieces : x[1] = s
                THEN (CHOOSE x \in pieces : x[1] = s)[2] ELSE Empty],
     turn |-> turn, castling_rights |-> rights, ep_square |-> ep,
     move_stack |-> <<>>, stack |-> <<>>]

\* r3k2r/8/8/8/8/8/8/R3K2R w KQkq -     (castling, rook captures rook)
BoardCastle ==
    SetBoard({<<4, "K">>, <<A1, "R">>, <<H1, "R">>, <<60, "k">>, <<A8, "r">>, <<H8, "r">>},
             WHITE, {A1, H1, A8, H8}, NoSquare)
\* 4k3/3p1p2/8/4P3/8/8/8/4K3 b - -      (double push, then en passant)
BoardDoublePush ==
    SetBoard({<<4, "K">>, <<36, "P">>, <<60, "k">>, <<51, "p">>, <<53, "p">>},
             BLACK, {}, NoSquare)
\* r3k3/1P6/8/8/8/8/6p1/4K2R w Kq -     (promotion with and without capture)
BoardPromotion ==
    SetBoard({<<4, "K">>, <<H1, "R">>, <<49, "P">>, <<60, "k">>, <<A8, "r">>, <<14, "p">>},
             WHITE, {H1, A8}, NoSquare)
\* 4k3/8/8/8/1pPp4/8/8/4K3 b - c3       (en passant available at once)
BoardEnPassant ==
    SetBoard({<<4, "K">>, <<26, "P">>, <<60, "k">>, <<25, "p">>, <<27, "p">>},
             BLACK, {}, 18)
StartBoards == {BoardCastle, BoardDoublePush, BoardPromotion, BoardEnPassant}

HashInit ==
    /\ board \in StartBoards
    /\ cle = hash_zobrist(board)
    /\ hply = 0
    /\ partie = Idle /\ gboard = Idle /\ ia = Idle /\ driver = "hash"
    /\ nb_coups = 0 /\ last = Idle /\ q = Idle
    /\ out = Idle /\ mem = Idle

\* new_cle = update_cle(board, cle, move); board.push(move)
HashPush ==
    /\ hply < MaxPlies
    /\ \E m \in legal_moves(board) :
        /\ cle' = update_cle(board, cle, m)
        /\ board' = push(board, m)
    /\ hply' = hply + 1
    /\ UNCHANGED <<svars, q, pvars>>

HashNext == HashPush
SpecHash == HashInit /\ [][HashNext]_vars

\* the move played last and the board it was played on
LastMove == board.move_stack[Len(board.move_stack)]
BoardBefore == pop(board)

\* C1: after every legal non-null move (quiet, capture, en passant, castling,
\* double push, promotion) the incrementally updated key equals the full
\* hash of the position reached.
C1_UpdateEqualsFullHash == cle = hash_zobrist(board)
\* an en-passant capture has been hashed, right after the double push that allowed it
C1_Witness ==
    /\ Len(board.move_stack) = 2
    /\ is_en_passant(BoardBefore, LastMove)
    /\ BoardBefore.ep_square # NoSquare
    /\ cle = hash_zobrist(board)

(***************************************************************************)
(* Layer 2 (Spec): the search.  python-chess and the feature sum of        *)
(* evaluate are replaced by a finite game graph: a position is a node      *)
(* carrying what the search asks of the board (side to move, legal moves   *)
(* in generation order, check, game-over kind, pieces, phase) and the      *)
(* static score the weighted features give it.  The search code itself     *)
(* (quiescence, alpha_beta, _recherche_complete, ia_move, coup) is         *)
(* translated statement by statement and threads the mutable objects       *)
(* (board, TT, killers, history) through its calls in a record `st`.       *)
(***************************************************************************)
Inf == 1000000000
Neg(x) == 0 - x
\* x + n on floats: an infinity stays the same infinity
Plus(x, n) == IF x = Inf \/ x = Neg(Inf) THEN x ELSE x + n

EXACT == 0
LOWERBOUND == 1
UPPERBOUND == 2

\* VALEURS_PIECES (memoire.json), indexed by piece type
VALEURS_PIECES(pt) == <<100, 320, 330, 500, 900, 20000>>[pt]

(***************************************************************************)
(* Game graphs                                                             *)
(***************************************************************************)
\* a move of the graph: the chess.Move fields, what the board says of it
\* (capture, victim and attacker types; victim 0 is an en-passant capture)
\* and the position it leads to
GMove(f, t, promo, capture, victim, attacker, to) ==
    [from_square |-> f, to_square |-> t, promotion |-> promo,
     capture |-> capture, victim |-> victim, attacker |-> attacker, to |-> to]
Quiet(f, t, to) == GMove(f, t, 0, FALSE, 0, KING, to)
Capture(f, t, victim, attacker, to) == GMove(f, t, 0, TRUE, victim, attacker, to)
\* a position of the graph; kind is "play" or the reason the game is over
\* placement names the piece placement (shared with the position reached by
\* passing: same pieces, other side to move); null is that position
GPos(turn, placement, kind, check, pieces, phase, static, null, moves) ==
    [turn |-> turn, placement |-> placement, kind |-> kind, check |-> check,
     pieces |-> pieces, phase |-> phase, static |-> static, null |-> null,
     moves |-> moves]

\* The shuttle game: each side has two pieces, each shuttling between two
\* squares (kings and rooks moving to and fro).  Position p in 0..31 is
\* 16*turn + 8*w1 + 4*w2 + 2*b1 + b2.  Positions recur and transpose.
Bit(p, k) == (p \div k) % 2
ShuttleMoves(p) ==
    IF Bit(p, 16) = 0
    THEN << Quiet(10 + Bit(p, 8), 11 - Bit(p, 8), 16 + (p % 8) + 8 * (1 - Bit(p, 8))),
            Quiet(20 + Bit(p, 4), 21 - Bit(p, 4), 16 + (p % 4) + 8 * Bit(p, 8) + 4 * (1 - Bit(p, 4))) >>
    ELSE << Quiet(50 + Bit(p, 2), 51 - Bit(p, 2), (p % 2) + 4 * Bit(p, 4) + 8 * Bit(p, 8) + 2 * (1 - Bit(p, 2))),
            Quiet(60 + Bit(p, 1), 61 - Bit(p, 1), (p % 16) - Bit(p, 1) + (1 - Bit(p, 1))) >>
\* v: [valW, valB: 4 scores by piece placement, check: the positions in check,
\*     piecesW, piecesB: the side owns a knight, bishop, rook or queen, phase]
ShuttlePos(p, v) ==
    LET white == Bit(p, 16) = 0
        w == v.valW[2 * Bit(p, 8) + Bit(p, 4) + 1]
        b == v.valB[2 * Bit(p, 2) + Bit(p, 1) + 1]
    IN  GPos(white, p % 16, "play", p \in v.check, IF white THEN v.piecesW ELSE v.piecesB,
             v.phase, IF white THEN w - b ELSE b - w, (p + 16) % 32, ShuttleMoves(p))
\* a game: the graph, the position play starts from, PROFONDEURS (the depth
\* ceiling by phase, from memoire.json), the opening book (the moves it holds
\* for a position, by their rank among the legal moves) and the clock (the
\* iterations after which elapsed can first exceed max_time on that machine);
\* past holds the moves played on the board before the first coup looked at
Game(pos, root, profondeurs, book, clock) ==
    [pos |-> pos, root |-> root, PROFONDEURS |-> profondeurs, book |-> book, clock |-> clock,
     past |-> <<>>]
\* the game taken up after the moves `played` from its root, each given by
\* its rank among the legal moves
Adjourned(game, played) == [game EXCEPT !.past = played]
Phases == {"ouverture", "milieu", "fin", "finfin"}
Ceiling(d) == [ph \in Phases |-> d]
ShuttleGame(v, root, d, book, clock) ==
    Game([p \in 0..31 |-> ShuttlePos(p, v)], root, Ceiling(d), book, clock)

\* the scores of the shuttle games: by the placement of a side's two pieces
ShuttleFlat == [valW |-> <<0, 0, 0, 0>>, valB |-> <<0, 0, 0, 0>>, check |-> {},
                piecesW |-> TRUE, piecesB |-> TRUE, phase |-> "ouverture"]
ShuttleA == [valW |-> <<30, 30, -60, -30>>, valB |-> <<-90, 30, -60, -30>>,
             check |-> {7, 8, 11, 18, 27},
             piecesW |-> TRUE, piecesB |-> TRUE, phase |-> "ouverture"]
ShuttleB == [valW |-> <<-90, 90, -90, 60>>, valB |-> <<-90, 30, 60, -90>>,
             check |-> {0, 3, 23, 24, 26, 27, 29},
             piecesW |-> FALSE, piecesB |-> TRUE, phase |-> "ouverture"]
\* scores under which the depth-4 pass leaves its aspiration window
ShuttleC == [valW |-> <<-100, 0, -200, 100>>, valB |-> <<-100, -300, 200, 200>>,
             check |-> {},
             piecesW |-> TRUE, piecesB |-> TRUE, phase |-> "ouverture"]
NoBook == [p \in {} |-> {}]
\* a book that knows White's positions after Black's first piece has left
\* its square, with both of their moves
LateBook == [p \in {2, 3, 6, 7, 10, 11, 14, 15} |-> {1, 2}]

\* The duel: each side has one piece that shuttles between two squares, so
\* every position has one move.  Position p in 0..7 is 4*turn + 2*w + b.
DuelPos(p, v) ==
    LET white == p < 4
        w == (p \div 2) % 2
        b == p % 2
        score == v.valW[w + 1] - v.valB[b + 1]
    IN  GPos(white, p % 4, "play", p \in v.check, TRUE, v.phase,
             IF white THEN score ELSE 0 - score, (p + 4) % 8,
             IF white THEN << GMove(10 + w, 11 - w, 0, FALSE, 0, ROOK, 4 + 2 * (1 - w) + b) >>
                      ELSE << GMove(50 + b, 51 - b, 0, FALSE, 0, ROOK, 2 * w + (1 - b)) >>)
DuelGame(v, root, d, clock) ==
    Game([p \in 0..7 |-> DuelPos(p, v)], root, Ceiling(d), NoBook, clock)
DuelA == [valW |-> <<0, 40>>, valB |-> <<0, 120>>, check |-> {1, 6}, phase |-> "finfin"]

\* The exchange game: a line of captures longer than the quiescence bound
\* (2 -> 3 -> ... -> 10), a mating capture, a promotion with check, a
\* stalemate, a position with insufficient material, and a closed track of
\* quiet moves (15 -> 16 -> 17 -> 18 -> 15) that every line can leave to.
\* No side owns more than pawns and a king.
TPos(turn, kind, check, phase, static, p, moves) ==
    GPos(turn, p, kind, check, FALSE, phase, static, p, moves)
Exchange ==
    [p \in 0..18 |->
        CASE p = 0 -> TPos(WHITE, "play", FALSE, "milieu", 0, p,
                           << Quiet(12, 28, 1), Capture(21, 36, PAWN, KNIGHT, 2),
                              GMove(52, 60, QUEEN, FALSE, 0, PAWN, 12),
                              Capture(27, 63, QUEEN, ROOK, 11) >>)
          [] p = 1 -> TPos(BLACK, "play", FALSE, "milieu", 10, p,
                           << Quiet(50, 42, 13), Capture(58, 30, KNIGHT, BISHOP, 14),
                              Quiet(51, 43, 15) >>)
          [] p = 3 -> TPos(WHITE, "play", FALSE, "milieu", -200, p,
                           << Capture(3, 35, PAWN, QUEEN, 16), Capture(28, 36, ROOK, PAWN, 4),
                              Quiet(8, 16, 16) >>)
          [] p = 9 -> TPos(WHITE, "play", FALSE, "fin", -800, p,
                           << GMove(36, 43, 0, TRUE, 0, PAWN, 10), Quiet(8, 16, 16) >>)
          [] p \in {2, 4, 6, 8} ->
                      TPos(BLACK, "play", FALSE, "milieu", -100 * p, p,
                           << Quiet(48, 40, 15), Capture(30 + p, 36, KNIGHT, PAWN, p + 1) >>)
          [] p \in {5, 7} ->
                      TPos(WHITE, "play", FALSE, "milieu", -100 * p, p,
                           << Capture(20 + p, 36, BISHOP, PAWN, p + 1), Quiet(8, 16, 16) >>)
          [] p = 10 -> TPos(BLACK, "play", FALSE, "fin", -900, p, << Quiet(48, 40, 15) >>)
          [] p = 11 -> TPos(BLACK, "checkmate", TRUE, "fin", 0, p, << >>)
          [] p = 12 -> TPos(BLACK, "play", TRUE, "fin", -900, p, << Quiet(62, 54, 15) >>)
          [] p = 13 -> TPos(WHITE, "stalemate", FALSE, "finfin", 0, p, << >>)
          [] p = 14 -> TPos(WHITE, "insufficient", FALSE, "finfin", 0, p, << >>)
          [] p \in {15, 17} ->
                      TPos(WHITE, "play", FALSE, "fin", 0, p,
                           << Quiet(4 + (p - 15) \div 2, 5 - (p - 15) \div 2, p + 1) >>)
          [] p \in {16, 18} ->
                      TPos(BLACK, "play", FALSE, "fin", 0, p,
                           << Quiet(60 + (p - 16) \div 2, 61 - (p - 16) \div 2,
                                    IF p = 18 THEN 15 ELSE 17) >>)]
ExchangeGame(root, d, clock) == Game(Exchange, root, Ceiling(d), NoBook, clock)

\* The mating game: from 0 White can go to 1 or to 3; Black's only move from
\* 1 leads to 2, where White mates at once by a capture (to 5) or goes to 3;
\* from 3 Black's only move leads to 4, where White's only move mates.
Mating ==
    [p \in 0..5 |->
        CASE p = 0 -> TPos(WHITE, "play", FALSE, "fin", 0, p, << Quiet(12, 20, 1), Quiet(6, 21, 3) >>)
          [] p = 1 -> TPos(BLACK, "play", FALSE, "fin", -50, p, << Quiet(62, 63, 2) >>)
          [] p = 2 -> TPos(WHITE, "play", FALSE, "fin", 50, p,
                           << Quiet(6, 21, 3), Capture(45, 54, PAWN, QUEEN, 5) >>)
          [] p = 3 -> TPos(BLACK, "play", FALSE, "fin", 0, p, << Quiet(63, 62, 4) >>)
          [] p = 4 -> TPos(WHITE, "play", FALSE, "fin", 0, p, << Capture(45, 54, PAWN, QUEEN, 5) >>)
          [] p = 5 -> TPos(BLACK, "checkmate", TRUE, "fin", 0, p, << >>)]
MatingGame(root, d, clock) == Game(Mating, root, Ceiling(d), NoBook, clock)

\* The switch game: White's first move (to 1) is best at depths 1 and 2 with
\* score 0; at depth 3 its second move (to 2) wins 300 and leaves the
\* aspiration window of that iteration.
Switch ==
    [p \in 0..8 |->
        CASE p = 0 -> TPos(WHITE, "play", FALSE, "milieu", 0, p, << Quiet(12, 20, 1), Quiet(6, 21, 2) >>)
          [] p = 1 -> TPos(BLACK, "play", FALSE, "milieu", 0, p, << Quiet(52, 44, 3) >>)
          [] p = 2 -> TPos(BLACK, "play", FALSE, "milieu", 100, p, << Quiet(57, 42, 4) >>)
          [] p = 3 -> TPos(WHITE, "play", FALSE, "milieu", 0, p, << Quiet(20, 28, 5) >>)
          [] p = 4 -> TPos(WHITE, "play", FALSE, "milieu", -100, p, << Quiet(21, 27, 6) >>)
          [] p = 5 -> TPos(BLACK, "play", FALSE, "milieu", 0, p, << Quiet(44, 36, 7) >>)
          [] p = 6 -> TPos(BLACK, "play", FALSE, "milieu", -300, p, << Quiet(42, 57, 8) >>)
          [] p = 7 -> TPos(WHITE, "play", FALSE, "milieu", 0, p, << Quiet(28, 20, 5) >>)
          [] p = 8 -> TPos(WHITE, "play", FALSE, "milieu", 300, p, << Quiet(27, 21, 6) >>)]
SwitchGame(root, d, clock) == Game(Switch, root, Ceiling(d), NoBook, clock)

Games == <<
    ShuttleGame(ShuttleA, 0, 4, NoBook, {4}),
    ShuttleGame(ShuttleB, 0, 4, NoBook, {4}),
    ShuttleGame(ShuttleFlat, 0, 3, LateBook, {1, 2, 3}),
    ShuttleGame(ShuttleA, 5, 0, NoBook, {1}),
    ExchangeGame(0, 2, {1, 2}),
    ExchangeGame(1, 2, {2}),
    ExchangeGame(2, 1, {1}),
    DuelGame(DuelA, 0, 7, {7}),
    ShuttleGame(ShuttleC, 0, 5, NoBook, {4}),
    MatingGame(0, 2, {2}),
    ExchangeGame(0, 3, {3}),
    SwitchGame(0, 3, {3}),
    Adjourned(DuelGame(DuelA, 0, 2, {2}), <<1, 1, 1, 1, 1, 1, 1, 1, 1, 1, 1, 1, 1, 1, 1>>) >>

(***************************************************************************)
(* The board as the search sees it.  The game being played is `partie`.    *)
(***************************************************************************)
\* chess.Board: the position, the saved positions (_stack) and the move stack
GBoard(p) == [pos |-> p, stack |-> <<>>, move_stack |-> <<>>]
Node(b) == partie.pos[b.pos]
\* board.legal_moves, in generation order
LegalMoves(b) == Node(b).moves
\* board.push(move)
PushMove(b, m) ==
    [b EXCEPT !.pos = m.to, !.stack = Append(@, b.pos), !.move_stack = Append(@, m)]
\* board.push(chess.Move.null())
PushNull(b) ==
    [b EXCEPT !.pos = Node(b).null, !.stack = Append(@, b.pos),
              !.move_stack = Append(@, NullMove)]
PopMove_Forgotten(b) == b
\* board.pop()
PopMove(b) ==
    [b EXCEPT !.pos = b.stack[Len(b.stack)],
              !.stack = SubSeq(@, 1, Len(@) - 1),
              !.move_stack = SubSeq(@, 1, Len(@) - 1)]
\* board.is_repetition(count): the position is on the board for at least
\* the count-th time
IsRepetition(b, count) ==
    /\ Len(b.stack) >= count - 1
    /\ Cardinality({ i \in 1..Len(b.stack) : b.stack[i] = b.pos }) >= count - 1
\* board.halfmove_clock: the moves since the last capture or pawn move (a
\* null move counts as a move)
HalfmoveClock(b) ==
    LET ms == b.move_stack
        zeroing == { i \in 1..Len(ms) :
                        IF ms[i] = NullMove THEN FALSE
                        ELSE ms[i].capture \/ ms[i].attacker = PAWN }
    IN  Len(ms) - (IF zeroing = {} THEN 0 ELSE CHOOSE i \in zeroing : \A j \in zeroing : j <= i)
\* board.is_seventyfive_moves()
IsSeventyFiveMoves(b) ==
    Len(b.move_stack) >= 150 /\ HalfmoveClock(b) >= 150 /\ LegalMoves(b) # <<>>
\* board.is_game_over(): checkmate, stalemate, insufficient material, the
\* 75-move rule, fivefold repetition
IsGameOver(b) ==
    Node(b).kind # "play" \/ IsSeventyFiveMoves(b) \/ IsRepetition(b, 5)
\* the board of a game that has been played up to here: board.push(move)
\* for each move played
RECURSIVE Replay(_, _)
Replay(b, played) ==
    IF played = <<>> THEN b
    ELSE CHOOSE r \in { Replay(next, Tail(played)) :
                            next \in {PushMove(b, LegalMoves(b)[Head(played)])} } : TRUE
\* board.is_repetition(2): the position has occurred before on the stack
IsRepetition2(b) == \E i \in 1..Len(b.stack) : b.stack[i] = b.pos
\* board.is_capture(move)
IsCapture(m) == m.capture
\* get_game_phase(board)
get_game_phase(b) == Node(b).phase
\* get_depth_for_phase(phase): PROFONDEURS[phase]
get_depth_for_phase(b) == partie.PROFONDEURS[get_game_phase(b)]

\* mvv_lva(board, move)
mvv_lva(m) ==
    IF ~m.capture THEN 0
    ELSE 10 * (IF m.victim # 0 THEN VALEURS_PIECES(m.victim) ELSE 100)
         - VALEURS_PIECES(m.attacker)

\* evaluate(board): the terminal cases, the repetition penalty, and
\* otherwise the weighted feature sum (the node's static score)
EvaluateNode(n, repeated) ==
    IF n.kind = "checkmate" THEN -100000
    ELSE IF n.kind \in {"stalemate", "insufficient"} THEN 0
    ELSE IF repeated THEN (IF n.phase \in {"fin", "finfin"} THEN -200 ELSE -80)
    ELSE n.static
evaluate(b) == EvaluateNode(Node(b), IsRepetition2(b))

(***************************************************************************)
(* Keys.  Each player instance draws its own tables (creer_zobrist), so a  *)
(* key carries the player that made it.  By C1 update_cle XORs into the    *)
(* key the difference of the two full hashes.                              *)
(***************************************************************************)
\* hash_zobrist(board, ZP, ZR, ZE, ZT, IP) with the tables of player pl
PlayerKey(pl, k) == (IF pl = WHITE THEN 10000 ELSE 20000) + k
NodeHash(pl, n) ==
    {PlayerKey(pl, 1000 + n.placement)}
        \cup (IF n.turn = BLACK THEN {PlayerKey(pl, ZOBRIST_TOUR)} ELSE {})
GHash(pl, p) == NodeHash(pl, partie.pos[p])
RootCle(pl, b) == GHash(pl, b.pos)
\* update_cle(board, cle, move, ...): the new key
UpdateCle(pl, b, key, m) ==
    SymDiff(key, SymDiff(GHash(pl, b.pos), GHash(pl, m.to)))
\* cle ^ ZT
NullCle(pl, key) == Xor(key, PlayerKey(pl, ZOBRIST_TOUR))

(***************************************************************************)
(* The transposition table: a dict, kept as the sequence of its entries in *)
(* insertion order.  TT[cle] = e replaces in place or appends.             *)
(***************************************************************************)
TTHas(TT, key) == \E i \in 1..Len(TT) : TT[i].cle = key
TTGet(TT, key) == TT[CHOOSE i \in 1..Len(TT) : TT[i].cle = key]
TTEntry(key, score, profondeur, flag) ==
    [cle |-> key, score |-> score, profondeur |-> profondeur, flag |-> flag]
TTSet(TT, key, score, profondeur, flag) ==
    IF TTHas(TT, key)
    THEN [i \in 1..Len(TT) |-> IF TT[i].cle = key THEN TTEntry(key, score, profondeur, flag)
                                                  ELSE TT[i]]
    ELSE Append(TT, TTEntry(key, score, profondeur, flag))
\* update_TT(TT, cle, evaluation, move, profondeur, flag)
update_TT(TT, key, score, profondeur, flag) ==
    IF ~TTHas(TT, key) \/ TTGet(TT, key).profondeur < profondeur
    THEN TTSet(TT, key, score, profondeur, flag)
    ELSE TT

(***************************************************************************)
(* The search state threaded through the calls                             *)
(***************************************************************************)
\* chess.Move equality and hashing: from, to, promotion
MoveCode(m) == m.from_square * 1000 + m.to_square * 10 + m.promotion
NoneMove == GMove(-1, -1, 0, FALSE, 0, KING, -1)
\* the history key (board.turn, from_square, to_square)
HistKey(b, m) == <<Node(b).turn, m.from_square, m.to_square>>
HistGet(history, k) == IF k \in DOMAIN history THEN history[k] ELSE 0

\* sorted(seq, key=..., reverse=True): stable, greatest priority first
StableSortDesc(seq, prio) ==
    LET n == Len(seq)
        Rank(i) == Cardinality({ j \in 1..n : prio[j] > prio[i] \/ (prio[j] = prio[i] /\ j < i) }) + 1
    IN  [k \in 1..n |-> seq[CHOOSE i \in 1..n : Rank(i) = k]]

\* the objects a search works on, and what is recorded of what it did
SearchState(b, TT, pl, tt_on, oracle) ==
    [board |-> b, TT |-> TT, killers |-> <<>>, history |-> <<>>,
     pl |-> pl, tt_on |-> tt_on, oracle |-> oracle,
     pushes |-> 0, pops |-> 0, frame_ok |-> TRUE,
     tt_probes |-> 0, tt_stores |-> 0, tt_peak |-> Len(TT),
     store_kept_rule |-> TRUE, depth_lowered |-> FALSE,
     nulls |-> 0, null_guard_ok |-> TRUE, null_twice |-> FALSE,
     null_child_allowed |-> FALSE,
     q_pushes_at_zero |-> 0, q_deepest |-> 0,
     returns |-> {}, null_refused |-> {}, keys_own |-> TRUE,
     call |-> <<>>, probes |-> {}, stores |-> {},
     cutoffs |-> {}, killers_peak |-> 0, killers_sound |-> TRUE,
     killer_evicted |-> FALSE, killer_index_ok |-> TRUE,
     history_moves |-> {}, history_held |-> TRUE, overs |-> {}]
\* alpha_beta returns score for a position where the game is over
GameOverSeen(st, score) ==
    [st EXCEPT !.overs = @ \cup {[kind |-> Node(st.board).kind,
                                  fivefold |-> IsRepetition(st.board, 5),
                                  seventyfive |-> IsSeventyFiveMoves(st.board),
                                  score |-> score]}]
\* a return path taken by a search routine
Ret(st, path) == [st EXCEPT !.returns = @ \cup {path}]

\* board.push(move) in a search routine
DoPush(st, m) == [st EXCEPT !.board = PushMove(st.board, m), !.pushes = @ + 1]
\* board.pop() in a search routine; `before` is the board that was pushed on
DoPop(st, before) ==
    [st EXCEPT !.board = PopMove(st.board), !.pops = @ + 1,
               !.frame_ok = @ /\ PopMove(st.board) = before]
\* the push and pop inside update_cle
DoUpdateCle(st, m) == DoPop(DoPush(st, m), st.board)

\* the key is made of entries of the Zobrist tables of player pl
OwnKey(pl, key) == \A x \in key : x \div 10000 = (IF pl = WHITE THEN 1 ELSE 2)
\* alpha_beta is entered with the key cle, which it probes and stores under
Keyed(st, key) == [st EXCEPT !.keys_own = @ /\ OwnKey(st.pl, key)]
\* the arguments alpha_beta is called with and what TT holds under cle then
Called(st, depth, alpha, beta, key) ==
    [st EXCEPT !.call =
        [depth |-> depth, alpha |-> alpha, beta |-> beta, cle |-> key,
         found |-> st.tt_on /\ TTHas(st.TT, key),
         entry |-> IF st.tt_on /\ TTHas(st.TT, key) THEN TTGet(st.TT, key)
                   ELSE TTEntry(key, 0, 0 - 1, 0 - 1)]]
\* the call goes on after a search below it came back
Resumed(st, call) == [st EXCEPT !.call = call]
\* what the probe made of the call: the window the node goes on with, or
\* the score it returns at once
Observed(st, alpha, beta, returned, score) ==
    [st EXCEPT !.probes = @ \cup {[call |-> st.call, alpha |-> alpha, beta |-> beta,
                                    returned |-> returned, score |-> score]}]
\* cle in TT / TT[cle] in alpha_beta
DoProbe(st) == IF st.tt_on THEN [st EXCEPT !.tt_probes = @ + 1] ELSE st
\* TT[cle] = {"score": ..., "profondeur": ..., "flag": ...} in alpha_beta
DoStore(st, key, score, profondeur, flag) ==
    IF ~st.tt_on THEN st
    ELSE LET had == TTHas(st.TT, key)
             old == TTGet(st.TT, key).profondeur
             TT2 == TTSet(st.TT, key, score, profondeur, flag)
         IN  [st EXCEPT !.TT = TT2, !.tt_stores = @ + 1,
                        !.tt_peak = Max2(@, Len(TT2)),
                        !.store_kept_rule = @ /\ (~had \/ old < profondeur),
                        !.depth_lowered = @ \/ (had /\ old > profondeur)]

Q_MAX == 5
R_NULL == 2

(***************************************************************************)
(* quiescence (IA_LA_VRAIE.py 618-670)                                     *)
(***************************************************************************)
QCutValue_Soft(score, beta) == score
\* return beta (lines 648 and 666): the value of a call cut off by score
QCutValue(score, beta) == beta
QChildDepth_Same(max_depth) == max_depth
\* max_depth - 1: the depth left to the call on a capture
QChildDepth(max_depth) == max_depth - 1
\* the captures among the legal moves, sorted by mvv_lva, greatest first
Captures(b) ==
    StableSortDesc(SelectSeq(LegalMoves(b), IsCapture),
                   [i \in 1..Len(SelectSeq(LegalMoves(b), IsCapture)) |->
                        mvv_lva(SelectSeq(LegalMoves(b), IsCapture)[i])])
\* the depth below the first call that a call of quiescence runs at
QEntered(st, max_depth) == [st EXCEPT !.q_deepest = Max2(@, Q_MAX - max_depth)]
\* board.push(move) in the capture loop
QPushed(st, m, max_depth) ==
    [DoPush(st, m) EXCEPT !.q_pushes_at_zero = @ + (IF max_depth = 0 THEN 1 ELSE 0)]
RECURSIVE quiescence(_, _, _, _)
RECURSIVE QStandPat(_, _, _, _, _)
RECURSIVE QLoop(_, _, _, _, _, _)
RECURSIVE QAfter(_, _, _, _, _, _, _)
quiescence(st, alpha, beta, max_depth) ==
    QStandPat(QEntered(st, max_depth), alpha, beta, max_depth, evaluate(st.board))
\* lines 645-652: the stand-pat cutoff, the raised alpha, the depth test
QStandPat(st, alpha, beta, max_depth, stand_pat) ==
    IF stand_pat >= beta
    THEN [score |-> QCutValue(stand_pat, beta), st |-> Ret(st, "stand_pat")]
    ELSE IF max_depth = 0
         THEN [score |-> IF alpha < stand_pat THEN stand_pat ELSE alpha,
               st |-> Ret(st, "q_bottom")]
    ELSE QLoop(st, Captures(st.board), 1,
               IF alpha < stand_pat THEN stand_pat ELSE alpha, beta, max_depth)
\* lines 660-670: the loop over the captures
QLoop(st, captures, i, alpha, beta, max_depth) ==
    IF i > Len(captures) THEN [score |-> alpha, st |-> Ret(st, "q_normal")]
    ELSE QAfter(st, captures, i, alpha, beta, max_depth,
                quiescence(QPushed(st, captures[i], max_depth),
                           Neg(beta), Neg(alpha), QChildDepth(max_depth)))
\* lines 663-668: r is what the call on the capture returned
QAfter(st, captures, i, alpha, beta, max_depth, r) ==
    IF Neg(r.score) >= beta
    THEN [score |-> QCutValue(Neg(r.score), beta), st |-> Ret(DoPop(r.st, st.board), "q_beta")]
    ELSE QLoop(DoPop(r.st, st.board), captures, i + 1,
               IF Neg(r.score) > alpha THEN Neg(r.score) ELSE alpha, beta, max_depth)

(***************************************************************************)
(* alpha_beta (IA_LA_VRAIE.py 673-812)                                     *)
(***************************************************************************)
LastIsNull(b) == Len(b.move_stack) > 0 /\ b.move_stack[Len(b.move_stack)] = NullMove
\* the condition of the null-move block
NullMoveGuard(b, depth, null_allowed) ==
    /\ null_allowed
    /\ depth >= R_NULL + 1
    /\ ~Node(b).check
    /\ Node(b).pieces
NullChildAllowed_True == TRUE
\* null_allowed of the search below a null move
NullChildAllowed == FALSE
\* board.push(chess.Move.null()), with what held when it was played
DoPushNull(st, depth, null_allowed) ==
    [st EXCEPT !.board = PushNull(st.board), !.pushes = @ + 1, !.nulls = @ + 1,
               !.null_guard_ok = @ /\ null_allowed /\ depth >= 3
                                   /\ ~Node(st.board).check /\ Node(st.board).pieces,
               !.null_twice = @ \/ LastIsNull(st.board)]
\* which conjuncts of the guard fail at a node deep enough for a null move
RefusedBy(n, depth, null_allowed) ==
    IF depth < R_NULL + 1 THEN {}
    ELSE (IF ~null_allowed THEN {"null_allowed"} ELSE {})
         \cup (IF n.check THEN {"check"} ELSE {})
         \cup (IF ~n.pieces THEN {"pieces"} ELSE {})
NullRefused(st, depth, null_allowed) ==
    IF RefusedBy(Node(st.board), depth, null_allowed) = {} THEN st
    ELSE [st EXCEPT !.null_refused = @ \cup {RefusedBy(Node(st.board), depth, null_allowed)}]
\* a call of alpha_beta: whether it runs right below a null move with
\* null_allowed set
ABEntered(st, null_allowed) ==
    [st EXCEPT !.null_child_allowed = @ \/ (LastIsNull(st.board) /\ null_allowed)]
UsableEntry_AnyDepth(st, key, depth) ==
    IF st.tt_on /\ TTHas(st.TT, key)
    THEN [usable |-> TRUE, flag |-> TTGet(st.TT, key).flag, score |-> TTGet(st.TT, key).score]
    ELSE [usable |-> FALSE, flag |-> -1, score |-> 0]
\* lines 734-736: the entry of the table that the call may use
UsableEntry(st, key, depth) ==
    IF st.tt_on /\ TTHas(st.TT, key) /\ TTGet(st.TT, key).profondeur >= depth
    THEN [usable |-> TRUE, flag |-> TTGet(st.TT, key).flag, score |-> TTGet(st.TT, key).score]
    ELSE [usable |-> FALSE, flag |-> -1, score |-> 0]
\* move_priority(m) of alpha_beta
move_priority(st, depth, m) ==
    mvv_lva(m)
    + (IF IsCapture(m) THEN 5000 ELSE 0)
    + (IF m.promotion # 0 THEN VALEURS_PIECES(m.promotion) + 4000 ELSE 0)
    + (IF MoveCode(m) \in st.killers[depth + 1] THEN 2000 ELSE 0)
    + HistGet(st.history, HistKey(st.board, m))
\* sorted(board.legal_moves, key=move_priority, reverse=True)
SortedMoves(st, depth) ==
    StableSortDesc(LegalMoves(st.board),
                   [i \in 1..Len(LegalMoves(st.board)) |->
                        move_priority(st, depth, LegalMoves(st.board)[i])])
HistoryBump_ByDepth(st, m, depth) ==
    [st EXCEPT !.history = (HistKey(st.board, m) :>
                               (HistGet(st.history, HistKey(st.board, m)) + depth)) @@ @]
\* history[key] = history.get(key, 0) + depth * depth
HistoryBump(st, m, depth) ==
    [st EXCEPT !.history = (HistKey(st.board, m) :>
                               (HistGet(st.history, HistKey(st.board, m)) + depth * depth)) @@ @]
\* the k-th smallest element of a set of numbers
Kth(S, k) == CHOOSE x \in S : Cardinality({ y \in S : y < x }) = k - 1
KillerKeep_All(added, oracle) == added
\* killers[depth].add(move); if len(killers[depth]) > 2: killers[depth].pop()
\* set.pop() removes an arbitrary element: the one the oracle names
KillerKeep(added, oracle) ==
    IF Cardinality(added) > 2
    THEN added \ {Kth(added, Min2(oracle, Cardinality(added)))}
    ELSE added
KillerAdd(st, m, depth) ==
    [st EXCEPT !.killers[depth + 1] = KillerKeep(@ \cup {MoveCode(m)}, st.oracle)]
\* killers[depth] is addressed (lines 774 and 800): killers is a list of
\* Len(st.killers) sets, indexed from 0
Indexed(st, depth) ==
    [st EXCEPT !.killer_index_ok = @ /\ 0 <= depth /\ depth <= Len(st.killers) - 1]
\* the loop of a call of remaining depth `depth` broke at move m (line 803);
\* `before` is the killer list before lines 798-802 ran, st the state after
CutoffSeen(st, before, m, depth) ==
    LET cut == IF IsCapture(m) THEN st.cutoffs ELSE st.cutoffs \cup {<<depth, MoveCode(m)>>}
    IN  [st EXCEPT
            !.cutoffs = cut,
            !.killers_peak = Max2(@, Cardinality(st.killers[depth + 1])),
            !.killers_sound = @ /\ \A k \in DOMAIN st.killers :
                                      \A c \in st.killers[k] : <<k - 1, c>> \in cut,
            !.killer_evicted = @ \/ ~(before[depth + 1] \subseteq st.killers[depth + 1])]
\* a move of the loop got its score (lines 787-803): `before` is history as
\* it was when the call on the move returned, st the state after line 803;
\* history_moves keeps the depth, the kind of move, whether its score was
\* above alpha and by how much its entry grew; history_held whether no
\* other entry changed and none fell
MoveSeen(st, before, m, depth, score, alpha) ==
    LET key == HistKey(st.board, m)
        keys == DOMAIN before \cup DOMAIN st.history
    IN  [st EXCEPT
            !.history_moves = @ \cup {[depth |-> depth, capture |-> IsCapture(m),
                                        raised |-> score > alpha,
                                        grew |-> HistGet(st.history, key) - HistGet(before, key)]},
            !.history_held = @ /\ \A k \in keys :
                                    /\ HistGet(st.history, k) >= HistGet(before, k)
                                    /\ k # key => HistGet(st.history, k) = HistGet(before, k)]
\* lines 792-802: the history and killer updates after a move's score
Learn(st, m, depth, score, alpha, beta) ==
    IF IsCapture(m) THEN st
    ELSE IF score > alpha /\ score >= beta THEN KillerAdd(HistoryBump(st, m, depth), m, depth)
    ELSE IF score > alpha THEN HistoryBump(st, m, depth)
    ELSE IF alpha >= beta THEN KillerAdd(st, m, depth)
    ELSE st
\* the flag of the entry stored by alpha_beta
StoreFlag(best_score, original_alpha, beta) ==
    IF best_score <= original_alpha THEN UPPERBOUND
    ELSE IF best_score >= beta THEN LOWERBOUND
    ELSE EXACT

RECURSIVE alpha_beta(_, _, _, _, _, _)
RECURSIVE ABProbed(_, _, _, _, _, _, _)
RECURSIVE ABWindow(_, _, _, _, _, _, _)
RECURSIVE ABAfterNull(_, _, _, _, _, _)
RECURSIVE ABMoves(_, _, _, _, _)
RECURSIVE ABLoop(_, _, _, _, _, _, _, _)
RECURSIVE ABAfter(_, _, _, _, _, _, _, _, _)
alpha_beta(st, depth, alpha, beta, key, null_allowed) ==
    IF IsGameOver(st.board)
    THEN [score |-> evaluate(st.board),
          st |-> Ret(GameOverSeen(ABEntered(st, null_allowed), evaluate(st.board)), "game_over")]
    ELSE ABProbed(DoProbe(Keyed(Called(ABEntered(st, null_allowed), depth, alpha, beta, key),
                                key)),
                  depth, alpha, beta, key, null_allowed, UsableEntry(st, key, depth))
\* lines 734-743: e is the usable entry of the table, if there is one
ABProbed(st, depth, alpha, beta, key, null_allowed, e) ==
    IF e.usable /\ e.flag = EXACT
    THEN [score |-> e.score, st |-> Ret(Observed(st, alpha, beta, TRUE, e.score), "tt_exact")]
    ELSE ABWindow(st, depth,
                  IF e.usable /\ e.flag = LOWERBOUND THEN Max2(alpha, e.score) ELSE alpha,
                  IF e.usable /\ e.flag = UPPERBOUND THEN Min2(beta, e.score) ELSE beta,
                  key, null_allowed, e)
\* lines 743-759: the narrowed window, the leaf, the null move
ABWindow(st, depth, alpha, beta, key, null_allowed, e) ==
    IF e.usable /\ alpha >= beta
    THEN [score |-> e.score, st |-> Ret(Observed(st, alpha, beta, TRUE, e.score), "tt_bound")]
    ELSE IF depth = 0 THEN quiescence(Observed(st, alpha, beta, FALSE, 0), alpha, beta, Q_MAX)
    ELSE IF NullMoveGuard(st.board, depth, null_allowed)
         THEN ABAfterNull(Observed(st, alpha, beta, FALSE, 0), depth, alpha, beta, key,
                          alpha_beta(DoPushNull(Observed(st, alpha, beta, FALSE, 0),
                                                depth, null_allowed),
                                     depth - R_NULL - 1,
                                     Neg(beta), Plus(Neg(beta), 1), NullCle(st.pl, key),
                                     NullChildAllowed))
    ELSE ABMoves(NullRefused(Observed(st, alpha, beta, FALSE, 0), depth, null_allowed),
                 depth, alpha, beta, key)
\* lines 760-762: r is what the search below the null move returned
ABAfterNull(st, depth, alpha, beta, key, r) ==
    IF Neg(r.score) >= beta
    THEN [score |-> beta, st |-> Ret(DoPop(r.st, st.board), "null_cutoff")]
    ELSE ABMoves(Resumed(DoPop(r.st, st.board), st.call), depth, alpha, beta, key)
\* what a call that went through its move loop left in TT under its key:
\* best_score, original_alpha and beta are the values of these variables at
\* line 805
Stored(st, call, best_score, original_alpha, beta) ==
    IF ~st.tt_on THEN st
    ELSE [st EXCEPT !.stores = @ \cup {[call |-> call, best_score |-> best_score,
                                         original_alpha |-> original_alpha, beta |-> beta,
                                         found |-> TTHas(st.TT, call.cle),
                                         entry |-> TTGet(st.TT, call.cle)]}]
\* lines 805-812: the store that follows the move loop
ABStore(done, depth, alpha, beta, key, call) ==
    [score |-> done.best_score,
     st |-> Stored(DoStore(done.st, key, done.best_score, depth,
                           StoreFlag(done.best_score, alpha, beta)),
                   call, done.best_score, alpha, beta)]
\* the sorted move loop and the store that follows it
ABMoves(st, depth, alpha, beta, key) ==
    ABStore(ABLoop(Indexed(st, depth), depth, alpha, beta, key, SortedMoves(st, depth), 1,
                   Neg(Inf)),
            depth, alpha, beta, key, st.call)
ABLoop(st, depth, alpha, beta, key, moves, i, best_score) ==
    IF i > Len(moves) THEN [st |-> Ret(st, "normal"), best_score |-> best_score]
    ELSE ABAfter(st, depth, alpha, beta, key, moves, i, best_score,
                 alpha_beta(DoPush(DoUpdateCle(st, moves[i]), moves[i]), depth - 1,
                            Neg(beta), Neg(alpha),
                            UpdateCle(st.pl, st.board, key, moves[i]), TRUE))
\* lines 787-803: r is what the search below moves[i] returned
ABAfter(st, depth, alpha, beta, key, moves, i, best_score, r) ==
    IF Max2(alpha, Neg(r.score)) >= beta
    THEN [st |-> Ret(CutoffSeen(MoveSeen(Learn(DoPop(r.st, st.board), moves[i], depth,
                                               Neg(r.score), alpha, beta),
                                         r.st.history, moves[i], depth, Neg(r.score), alpha),
                                r.st.killers, moves[i], depth),
                     "beta_cutoff"),
          best_score |-> Max2(best_score, Neg(r.score))]
    ELSE ABLoop(MoveSeen(Learn(DoPop(r.st, st.board), moves[i], depth, Neg(r.score), alpha,
                               beta),
                         r.st.history, moves[i], depth, Neg(r.score), alpha),
                depth, Max2(alpha, Neg(r.score)), beta, key, moves, i + 1,
                Max2(best_score, Neg(r.score)))

(***************************************************************************)
(* _recherche_complete (IA_LA_VRAIE.py 815-865)                            *)
(***************************************************************************)
WINDOW == 50
\* priority(m) of _recherche_complete and priority_root(m) of ia_move
root_priority(m, best_first) ==
    IF MoveCode(m) = MoveCode(best_first) THEN Inf
    ELSE mvv_lva(m) + (IF IsCapture(m) THEN 5000 ELSE 0)
                    + (IF m.promotion # 0 THEN 4000 ELSE 0)
RootOrder(b, best_first) ==
    StableSortDesc(LegalMoves(b),
                   [i \in 1..Len(LegalMoves(b)) |-> root_priority(LegalMoves(b)[i], best_first)])

RECURSIVE RCLoop(_, _, _, _, _, _, _)
RECURSIVE RCAfter(_, _, _, _, _, _, _, _)
RCLoop(st, depth, root_cle, moves, i, best_move, best_score) ==
    IF i > Len(moves)
    THEN [st |-> st, best_move |-> best_move, best_score |-> best_score, roots |-> i - 1,
          first |-> IF moves = <<>> THEN NoneMove ELSE moves[1]]
    ELSE RCAfter(st, depth, root_cle, moves, i, best_move, best_score,
                 alpha_beta(DoPush(DoUpdateCle(st, moves[i]), moves[i]), depth - 1,
                            Neg(Inf), Inf,
                            UpdateCle(st.pl, st.board, root_cle, moves[i]), TRUE))
\* lines 860-863: r is what the search below moves[i] returned
RCAfter(st, depth, root_cle, moves, i, best_move, best_score, r) ==
    IF Neg(r.score) > best_score
    THEN RCLoop(DoPop(r.st, st.board), depth, root_cle, moves, i + 1, moves[i], Neg(r.score))
    ELSE RCLoop(DoPop(r.st, st.board), depth, root_cle, moves, i + 1, best_move, best_score)
_recherche_complete(st, depth, root_cle, best_first) ==
    RCLoop(st, depth, root_cle, RootOrder(st.board, best_first), 1, NoneMove, Neg(Inf))

(***************************************************************************)
(* ia_move (IA_LA_VRAIE.py 868-987)                                        *)
(***************************************************************************)
\* the aspiration pass over the root moves (lines 946-961)
RECURSIVE AspLoop(_, _, _, _, _, _, _, _, _)
RECURSIVE AspAfter(_, _, _, _, _, _, _, _, _, _)
AspLoop(st, current_depth, alpha, beta, root_cle, moves, i, iter_best, iter_score) ==
    IF i > Len(moves)
    THEN [st |-> st, iter_best |-> iter_best, iter_score |-> iter_score, fail |-> FALSE,
          roots |-> i - 1]
    ELSE AspAfter(st, current_depth, alpha, beta, root_cle, moves, i, iter_best, iter_score,
                  alpha_beta(DoPush(DoUpdateCle(st, moves[i]), moves[i]), current_depth - 1,
                             Neg(beta), Neg(alpha),
                             UpdateCle(st.pl, st.board, root_cle, moves[i]), TRUE))
\* lines 951-961: r is what the search below moves[i] returned
AspAfter(st, current_depth, alpha, beta, root_cle, moves, i, iter_best, iter_score, r) ==
    IF Max2(alpha, Neg(r.score)) >= beta
    THEN [st |-> DoPop(r.st, st.board),
          iter_best |-> IF Neg(r.score) > iter_score THEN moves[i] ELSE iter_best,
          iter_score |-> Max2(iter_score, Neg(r.score)), fail |-> TRUE, roots |-> i]
    ELSE AspLoop(DoPop(r.st, st.board), current_depth, Max2(alpha, Neg(r.score)), beta,
                 root_cle, moves, i + 1,
                 IF Neg(r.score) > iter_score THEN moves[i] ELSE iter_best,
                 Max2(iter_score, Neg(r.score)))

\* what one pass of the for loop produced; roots is the number of root moves
\* searched by the loop that produced it
IterResult(full, aspiration, fallback, asp_best, asp_score) ==
    [st |-> full.st, iter_best |-> full.best_move, iter_score |-> full.best_score,
     aspiration |-> aspiration, fallback |-> fallback, asp_best |-> asp_best,
     asp_score |-> asp_score, roots |-> full.roots, wide_first |-> full.first]
IsInf(x) == x = Inf \/ x = Neg(Inf)
\* abs(iter_score - prev_score) > WINDOW on floats: the difference of two
\* equal infinities is nan, which compares False; any other difference with
\* an infinity is infinite
FarFromPrev(iter_score, prev_score) ==
    IF IsInf(iter_score) /\ IsInf(prev_score) THEN iter_score # prev_score
    ELSE IF IsInf(iter_score) \/ IsInf(prev_score) THEN TRUE
    ELSE Abs(iter_score - prev_score) > WINDOW
\* line 963: asp is what the aspiration pass produced
AspDecide(asp, current_depth, root_cle, best_move, prev_score) ==
    IF asp.fail \/ asp.iter_best = NoneMove \/ FarFromPrev(asp.iter_score, prev_score)
    THEN IterResult(_recherche_complete(asp.st, current_depth, root_cle, best_move),
                    TRUE, TRUE, asp.iter_best, asp.iter_score)
    ELSE [st |-> asp.st, iter_best |-> asp.iter_best, iter_score |-> asp.iter_score,
          aspiration |-> TRUE, fallback |-> FALSE, asp_best |-> asp.iter_best,
          asp_score |-> asp.iter_score, roots |-> asp.roots, wide_first |-> NoneMove]
\* one pass of the for loop over current_depth (lines 930-974)
Iteration(st, current_depth, root_cle, best_move, prev_score) ==
    IF current_depth >= 3
    THEN AspDecide(AspLoop(st, current_depth, Plus(prev_score, 0 - WINDOW),
                           Plus(prev_score, WINDOW),
                           root_cle, RootOrder(st.board, best_move), 1, NoneMove, Neg(Inf)),
                   current_depth, root_cle, best_move, prev_score)
    ELSE IterResult(_recherche_complete(st, current_depth, root_cle, best_move),
                    FALSE, FALSE, NoneMove, 0)

\* the record of one pass of the for loop
LogEntry(it, current_depth, best_move, prev_score, clock) ==
    [depth |-> current_depth, iter_best |-> it.iter_best,
     iter_score |-> it.iter_score, aspiration |-> it.aspiration,
     fallback |-> it.fallback, asp_best |-> it.asp_best, asp_score |-> it.asp_score,
     roots |-> it.roots, wide_first |-> it.wide_first,
     best_first |-> best_move, prev_score |-> prev_score,
     elapsed |-> clock.elapsed[current_depth], max_time |-> clock.max_time]
NewBest_Initial(it, best_move) == best_move
\* lines 976-977: best_move after the pass
NewBest(it, best_move) == IF it.iter_best # NoneMove THEN it.iter_best ELSE best_move
\* lines 976-978: prev_score after the pass
NewPrev(it, prev_score) == IF it.iter_best # NoneMove THEN it.iter_score ELSE prev_score
\* time_limits[phase] (lines 911-916), in tenths of a second
time_limits(phase) ==
    CASE phase = "ouverture" -> 20
      [] phase = "milieu" -> 40
      [] phase = "fin" -> 50
      [] phase = "finfin" -> 60
TimeOver_Never(elapsed, max_time) == FALSE
\* line 983: if elapsed > max_time
TimeOver(elapsed, max_time) == elapsed > max_time
\* the for loop; clock.elapsed[k] is time.time() - start_time as read after
\* iteration k, clock.max_time the limit of the phase
RECURSIVE IDLoop(_, _, _, _, _, _, _, _)
RECURSIVE IDAfter(_, _, _, _, _, _, _, _)
IDLoop_ClockFirst(st, depth, current_depth, root_cle, best_move, prev_score, clock, log) ==
    IF current_depth > depth \/ TimeOver(clock.elapsed[current_depth], clock.max_time)
    THEN [move |-> best_move, st |-> st, log |-> log, book |-> FALSE]
    ELSE IDAfter(depth, current_depth, root_cle, best_move, prev_score, clock, log,
                 Iteration(st, current_depth, root_cle, best_move, prev_score))
\* lines 928-974: the pass at current_depth runs, then the clock is read
IDLoop(st, depth, current_depth, root_cle, best_move, prev_score, clock, log) ==
    IF current_depth > depth
    THEN [move |-> best_move, st |-> st, log |-> log, book |-> FALSE]
    ELSE IDAfter(depth, current_depth, root_cle, best_move, prev_score, clock, log,
                 Iteration(st, current_depth, root_cle, best_move, prev_score))
\* lines 976-985: it is what the pass at current_depth produced
IDAfter(depth, current_depth, root_cle, best_move, prev_score, clock, log, it) ==
    IF TimeOver(clock.elapsed[current_depth], clock.max_time)
    THEN [move |-> NewBest(it, best_move),
          st |-> it.st,
          log |-> Append(log, LogEntry(it, current_depth, best_move, prev_score, clock)),
          book |-> FALSE]
    ELSE IDLoop(it.st, depth, current_depth + 1, root_cle,
                NewBest(it, best_move), NewPrev(it, prev_score), clock,
                Append(log, LogEntry(it, current_depth, best_move, prev_score, clock)))

BookReturn_Probes(st, book_move) ==
    [move |-> book_move, st |-> DoProbe(st), log |-> <<>>, book |-> TRUE]
\* return book_move: nothing is searched, the table is not touched
BookReturn(st, book_move) == [move |-> book_move, st |-> st, log |-> <<>>, book |-> TRUE]
FirstLegal_None(b) == NoneMove
\* best_move = next(iter(board.legal_moves))
FirstLegal(b) == LegalMoves(b)[1]
\* killers = [set() for _ in range(depth + 2)]; history = {}
NewSearch(st, depth) ==
    [st EXCEPT !.killers = [i \in 1..(depth + 2) |-> {}], !.history = <<>>]
\* ia_move(TT, board, depth, ZP, ZR, ZE, ZT, IP): book_move is what
\* polyglot_move(board) returned (NoneMove: None), elapsed what the clock
\* reads after each iteration
ia_move(st, depth, book_move, elapsed) ==
    IF book_move # NoneMove
    THEN BookReturn(st, book_move)
    ELSE IDLoop(NewSearch(st, depth), depth, 1, RootCle(st.pl, st.board),
                FirstLegal(st.board), 0,
                [elapsed |-> elapsed, max_time |-> time_limits(get_game_phase(st.board))],
                <<>>)

(***************************************************************************)
(* The players and the game loop (training.py, main.py, canvas_tkinter.py) *)
(***************************************************************************)
\* TT_MAX_SIZE of training.py (150_000), scaled to the size of the graphs
TT_MAX_SIZE == 4
\* MAX_MOVES of training.py (300), scaled
MAX_MOVES == 4

\* polyglot_move(board): one of the book's moves for the position, or None
polyglot_move(b) ==
    IF b.pos \in DOMAIN partie.book /\ partie.book[b.pos] # {}
    THEN { LegalMoves(b)[i] : i \in partie.book[b.pos] }
    ELSE {NoneMove}

\* JoueurIAHeadless._nettoyer_TT
_nettoyer_TT(table) ==
    IF Len(table) > TT_MAX_SIZE
    THEN SubSeq(table, (Len(table) \div 2) + 1, Len(table))
    ELSE table

\* what is kept of the state of a finished search
Trace(st) ==
    [board |-> st.board, pushes |-> st.pushes, pops |-> st.pops, frame_ok |-> st.frame_ok,
     tt_probes |-> st.tt_probes, tt_stores |-> st.tt_stores, tt_peak |-> st.tt_peak,
     store_kept_rule |-> st.store_kept_rule, depth_lowered |-> st.depth_lowered,
     nulls |-> st.nulls, null_guard_ok |-> st.null_guard_ok, null_twice |-> st.null_twice,
     null_child_allowed |-> st.null_child_allowed,
     q_pushes_at_zero |-> st.q_pushes_at_zero, q_deepest |-> st.q_deepest,
     returns |-> st.returns, null_refused |-> st.null_refused, keys_own |-> st.keys_own,
     probes |-> st.probes, stores |-> st.stores,
     killers |-> st.killers, cutoffs |-> st.cutoffs, killers_peak |-> st.killers_peak,
     killers_sound |-> st.killers_sound, killer_evicted |-> st.killer_evicted,
     killer_index_ok |-> st.killer_index_ok,
     history |-> st.history, history_moves |-> st.history_moves,
     history_held |-> st.history_held, overs |-> st.overs]
\* what a coup leaves for inspection: the call, its result (res), and the
\* moves the same call returns with the table disabled (off) and with an
\* empty table (fresh)
CoupRecord(pl, before, table, depth, book_move, stop_after, elapsed, res, off, fresh) ==
    [pl |-> pl, before |-> before, table |-> table, depth |-> depth,
     book_move |-> book_move, stop_after |-> stop_after, elapsed |-> elapsed,
     move |-> res.move, st |-> Trace(res.st), log |-> res.log, book |-> res.book,
     table_after |-> res.st.TT, move_off |-> off.move, move_fresh |-> fresh.move]
Coup(pl, before, table, depth, book_move, stop_after, elapsed, oracle) ==
    CoupRecord(pl, before, table, depth, book_move, stop_after, elapsed,
        ia_move(SearchState(before, table, pl, TRUE, oracle), depth, book_move, elapsed),
        ia_move(SearchState(before, <<>>, pl, FALSE, oracle), depth, book_move, elapsed),
        ia_move(SearchState(before, <<>>, pl, TRUE, oracle), depth, book_move, elapsed))

\* the clock readings that matter: the iteration after which elapsed > max_time
StopAfter == partie.clock
\* what the clock reads after each iteration, in tenths of a second, on a
\* machine where it is first above max_time after iteration stop_after; on
\* some runs the reading before that one is max_time exactly
Readings(b, depth, stop_after) ==
    LET max_time == time_limits(get_game_phase(b))
        Upto(exact) == [k \in 1..depth |->
                            IF k >= stop_after THEN max_time + k
                            ELSE IF exact /\ k = stop_after - 1 THEN max_time
                            ELSE k]
    IN  { Upto(exact) : exact \in BOOLEAN }
Oracles == 1..3

PlayerTable_Shared(pl) == ia[WHITE].TT
\* self.TT of the player instance of colour pl
PlayerTable(pl) == ia[pl].TT
\* JoueurIAHeadless.coup and the loop body of jouer_partie
PartieCoup ==
    /\ driver = "training"
    /\ ~IsGameOver(gboard)
    /\ nb_coups < MAX_MOVES
    /\ \E book_move \in polyglot_move(gboard), stop_after \in StopAfter, oracle \in Oracles :
         \E elapsed \in Readings(gboard, get_depth_for_phase(gboard), stop_after) :
           \E c \in {Coup(Node(gboard).turn, gboard, _nettoyer_TT(PlayerTable(Node(gboard).turn)),
                          get_depth_for_phase(gboard), book_move, stop_after, elapsed,
                          oracle)} :
               /\ last' = c
               /\ ia' = [ia EXCEPT ![c.pl].TT = c.table_after]
               /\ gboard' = PushMove(gboard, c.move)
    /\ nb_coups' = nb_coups + 1
    /\ UNCHANGED <<partie, driver, hvars, q, pvars>>

\* JoueurIA.coup and Chess_UI pushing the move it returns
UICoup ==
    /\ driver = "main"
    /\ ~IsGameOver(gboard)
    /\ nb_coups < MAX_MOVES
    /\ \E book_move \in polyglot_move(gboard), stop_after \in StopAfter, oracle \in Oracles :
         \E elapsed \in Readings(gboard, get_depth_for_phase(gboard), stop_after) :
           \E c \in {Coup(Node(gboard).turn, gboard, PlayerTable(Node(gboard).turn),
                          get_depth_for_phase(gboard), book_move, stop_after, elapsed,
                          oracle)} :
               /\ last' = c
               /\ ia' = [ia EXCEPT ![c.pl].TT = c.table_after]
               /\ gboard' = PushMove(gboard, c.move)
    /\ nb_coups' = nb_coups + 1
    /\ UNCHANGED <<partie, driver, hvars, q, pvars>>

NoCoup == [book |-> FALSE, move |-> NoneMove]
Init ==
    /\ driver \in {"training", "main"}
    /\ partie \in { Games[g] : g \in 1..Len(Games) }
    /\ gboard = Replay(GBoard(partie.root), partie.past)
    /\ ia = [c \in BOOLEAN |-> [TT |-> <<>>]]
    /\ nb_coups = 0
    /\ last = NoCoup
    /\ board = Idle /\ cle = {} /\ hply = 0
    /\ q = Idle
    /\ out = Idle /\ mem = Idle
Next == PartieCoup \/ UICoup
Spec == Init /\ [][Next]_vars

(***************************************************************************)
(* Properties of the search and of the players                             *)
(***************************************************************************)
\* a coup has been played, and it was searched / taken from the book
Played == nb_coups > 0
Searched == Played /\ ~last.book
FromBook == Played /\ last.book
MoveSet(b) == { LegalMoves(b)[i] : i \in 1..Len(LegalMoves(b)) }

\* C2: every search routine leaves the position as it received it: each pop
\* (in alpha_beta, quiescence, update_cle, _recherche_complete, ia_move)
\* restores the board its push was made on, pushes and pops are equal in
\* number, and the board and its move stack after ia_move are those before.
C2_SearchRestoresBoard ==
    Played => /\ last.st.frame_ok
              /\ last.st.pushes = last.st.pops
              /\ last.st.board = last.before
\* a search that returned through a TT cutoff, a null-move cutoff, a beta
\* cutoff, a stand-pat cutoff and the normal end of the move loop
C2_Witness ==
    /\ Searched
    /\ {"tt_exact", "null_cutoff", "beta_cutoff", "stand_pat", "normal"} \subseteq last.st.returns
    /\ last.st.pushes > 0

\* C3: a store made by the search writes only when there is no entry for the
\* key or the entry's depth is strictly less than the new depth, so the
\* depth recorded for a key never decreases.
C3_StoreOnlyWhenDeeper ==
    Searched => /\ last.st.store_kept_rule
                /\ ~last.st.depth_lowered

\* C4: a player's table never holds more than TT_MAX_SIZE entries, after a
\* coup or during its search.
C4_TableBounded ==
    /\ Played => last.st.tt_peak <= TT_MAX_SIZE
    /\ driver \in {"training", "main"} => \A c \in BOOLEAN : Len(ia[c].TT) <= TT_MAX_SIZE

\* C5: ia_move returns the same move with the table probed and stored as
\* with the table disabled (same position, depth ceiling, clock and order).
C5_SameMoveWithTableDisabled ==
    Searched => last.move = last.move_off

\* C6: with the clock not binding, the move ia_move returns does not depend
\* on what earlier calls left in the player's table: it is the move the
\* same call returns with an empty table.
C6_IndependentOfEarlierCalls ==
    (Searched /\ last.stop_after >= last.depth) => last.move = last.move_fresh

\* C8: a null move is played only when null_allowed holds, depth >= 3, the
\* side to move is not in check and owns a knight, bishop, rook or queen;
\* the search below it runs with null_allowed false, so no null move
\* follows another.
C8_NullMoveGuarded ==
    Played => /\ last.st.null_guard_ok
              /\ ~last.st.null_child_allowed
              /\ ~last.st.null_twice
\* a search that played null moves, played none at a node in check, and
\* played none below a null move at a node with depth >= 3, out of check
\* and with pieces
C8_Witness ==
    /\ Searched
    /\ last.st.nulls > 0
    /\ {"check"} \in last.st.null_refused
    /\ {"null_allowed"} \in last.st.null_refused

\* C9: without a book move ia_move returns a move, never None, that is legal
\* in the position, whatever the depth ceiling, the clock and the table.
C9_ReturnsLegalMove ==
    Searched => /\ last.move # NoneMove
                /\ last.move \in MoveSet(last.before)
\* the depth ceiling is 0: no iteration runs
C9_Witness ==
    /\ Searched
    /\ last.depth = 0
    /\ last.log = <<>>
    /\ last.move \in MoveSet(last.before)

\* C10: a book move is returned at once: no iteration runs, no move is
\* pushed, the table is neither probed nor stored to and is left as it was.
C10_BookMoveReturnedAtOnce ==
    FromBook => /\ last.move = last.book_move
                /\ last.log = <<>>
                /\ last.st.pushes = 0
                /\ last.st.tt_probes = 0
                /\ last.st.tt_stores = 0
                /\ last.table_after = last.table
\* a book move returned to a player whose table holds entries
C10_Witness ==
    /\ FromBook
    /\ last.table # <<>>
    /\ last.move = last.book_move

\* the passes among the first n of a log that produced a move
Produced(log, n) == { i \in 1..n : log[i].iter_best # NoneMove }
LastProduced(log, n) == CHOOSE i \in Produced(log, n) : \A j \in Produced(log, n) : j <= i
\* C11: the move ia_move returns is the best move of the last completed
\* pass that produced one, or the initial fallback move; the passes run are
\* depths 1, 2, ... up to the ceiling or the first clock reading over the
\* budget, each one a loop over all root moves, and each starts from the
\* best_move and prev_score of the last earlier pass that produced a move.
C11_MoveOfLastCompletedIteration ==
    Searched =>
        /\ Len(last.log) = Min2(last.depth, last.stop_after)
        /\ \A i \in 1..Len(last.log) :
            /\ last.log[i].depth = i
            /\ last.log[i].roots = Len(LegalMoves(last.before))
            /\ last.log[i].best_first =
                   (IF Produced(last.log, i - 1) = {} THEN FirstLegal(last.before)
                    ELSE last.log[LastProduced(last.log, i - 1)].iter_best)
            /\ last.log[i].prev_score =
                   (IF Produced(last.log, i - 1) = {} THEN 0
                    ELSE last.log[LastProduced(last.log, i - 1)].iter_score)
        /\ last.move = (IF Produced(last.log, Len(last.log)) = {} THEN FirstLegal(last.before)
                        ELSE last.log[LastProduced(last.log, Len(last.log))].iter_best)
\* the clock stopped the loop below the ceiling, the last pass fell back
\* from a failed aspiration pass, and a pass that produced no move left
\* best_move as it was
C11_Witness ==
    /\ Searched
    /\ last.stop_after < last.depth
    /\ \E i \in 1..Len(last.log) : last.log[i].fallback
    /\ last.move # FirstLegal(last.before)

(***************************************************************************)
(* quiescence frame by frame: the call stack of one call                   *)
(* quiescence(board, alpha, beta, max_depth), one step per statement group *)
(***************************************************************************)
\* the windows the call is started with
QWindows == { <<Neg(Inf), Inf>>, <<-250, 250>>, <<-450, -150>> }
\* a frame: the locals of one activation and where it stands
\*   "enter": at line 645; "loop": at the head of the for loop;
\*   "wait": inside the recursive call of line 662
\* called, stand_pat and scores keep what the activation was called with and
\* what it has seen: evaluate(board) and the scores of its captures
QFrame(alpha, beta, max_depth) ==
    [alpha |-> alpha, beta |-> beta, max_depth |-> max_depth,
     captures |-> <<>>, i |-> 1, pc |-> "enter",
     called |-> alpha, stand_pat |-> 0, scores |-> {}]
\* the games that have captures
HasCaptures(game) ==
    \E p \in DOMAIN game.pos : \E i \in 1..Len(game.pos[p].moves) : game.pos[p].moves[i].capture
QGames == { Games[g] : g \in { h \in 1..Len(Games) : HasCaptures(Games[h]) } }
QTop == q.stack[Len(q.stack)]
QSetTop(f) == [q.stack EXCEPT ![Len(q.stack)] = f]
\* return v from the top frame: the caller resumes after its recursive call
QReturn(qq, v) ==
    LET rest == SubSeq(qq.stack, 1, Len(qq.stack) - 1)
        f == qq.stack[Len(qq.stack)]
    IN  [qq EXCEPT !.stack = rest, !.ret = v, !.done = (rest = <<>>),
                   !.returned = [alpha |-> f.called, beta |-> f.beta,
                                 stand_pat |-> f.stand_pat, scores |-> f.scores,
                                 r |-> v]]

QInit ==
    /\ partie \in QGames
    /\ \E w \in QWindows, max_depth \in 0..Q_MAX, p \in DOMAIN partie.pos :
        q = [board |-> GBoard(p), start |-> GBoard(p),
             alpha |-> w[1], beta |-> w[2], max_depth |-> max_depth,
             stack |-> << QFrame(w[1], w[2], max_depth) >>,
             ret |-> 0, done |-> FALSE, returned |-> Idle,
             pushes |-> 0, pops |-> 0, pushes_at_zero |-> 0, cut_with_captures |-> FALSE]
    /\ board = Idle /\ cle = {} /\ hply = 0
    /\ gboard = Idle /\ ia = Idle /\ driver = "quiescence" /\ nb_coups = 0 /\ last = Idle
    /\ out = Idle /\ mem = Idle

\* lines 645-658: stand-pat, the depth test, the sorted captures
QEnter ==
    /\ q # Idle /\ ~q.done /\ QTop.pc = "enter"
    /\ LET f == QTop
           stand_pat == evaluate(q.board)
           a1 == IF f.alpha < stand_pat THEN stand_pat ELSE f.alpha
           seen == [q EXCEPT !.stack = QSetTop([f EXCEPT !.stand_pat = stand_pat])]
       IN  q' = IF stand_pat >= f.beta THEN QReturn(seen, QCutValue(stand_pat, f.beta))
                ELSE IF f.max_depth = 0
                THEN QReturn([seen EXCEPT !.cut_with_captures = @ \/ Captures(q.board) # <<>>],
                             a1)
                ELSE [q EXCEPT !.stack = QSetTop([f EXCEPT !.alpha = a1,
                                                           !.stand_pat = stand_pat,
                                                           !.captures = Captures(q.board),
                                                           !.pc = "loop"])]
    /\ UNCHANGED <<hvars, svars, pvars>>

\* lines 660-662: the next capture is pushed and searched
QPush ==
    /\ q # Idle /\ ~q.done /\ QTop.pc = "loop" /\ QTop.i <= Len(QTop.captures)
    /\ LET f == QTop
       IN  q' = [q EXCEPT !.board = PushMove(q.board, f.captures[f.i]),
                          !.pushes = @ + 1,
                          !.pushes_at_zero = @ + (IF f.max_depth = 0 THEN 1 ELSE 0),
                          !.stack = Append(QSetTop([f EXCEPT !.pc = "wait"]),
                                           QFrame(Neg(f.beta), Neg(f.alpha),
                                                  QChildDepth(f.max_depth)))]
    /\ UNCHANGED <<hvars, svars, pvars>>

\* lines 662-668: the call returned; pop, then the cutoff test
QResume ==
    /\ q # Idle /\ ~q.done /\ QTop.pc = "wait"
    /\ LET f == QTop
           score == Neg(q.ret)
           popped == [q EXCEPT !.board = PopMove(q.board), !.pops = @ + 1,
                               !.stack = QSetTop([f EXCEPT !.scores = @ \cup {score}])]
       IN  q' = IF score >= f.beta THEN QReturn(popped, QCutValue(score, f.beta))
                ELSE [popped EXCEPT !.stack = QSetTop([f EXCEPT
                                        !.scores = @ \cup {score},
                                        !.alpha = IF score > f.alpha THEN score ELSE f.alpha,
                                        !.i = f.i + 1, !.pc = "loop"])]
    /\ UNCHANGED <<hvars, svars, pvars>>

\* line 670: the loop is over
QLoopEnd ==
    /\ q # Idle /\ ~q.done /\ QTop.pc = "loop" /\ QTop.i > Len(QTop.captures)
    /\ q' = QReturn(q, QTop.alpha)
    /\ UNCHANGED <<hvars, svars, pvars>>

QNext == QEnter \/ QPush \/ QResume \/ QLoopEnd
\* a running call keeps running: the interpreter takes the next step
SpecQ == QInit /\ [][QNext]_vars /\ WF_vars(QNext)

\* C7: every call of quiescence returns, its recursion is never more than
\* max_depth captures below the first call, and a call with max_depth 0
\* pushes no move.
C7_QuiescenceTerminatesWithinMaxDepth ==
    /\ <>(q.done)
    /\ [](Len(q.stack) <= q.max_depth + 1)
    /\ [](q.pushes_at_zero = 0)
\* a call with the default max_depth that went down 5 captures and stopped
\* there although a capture was available
C7_Witness ==
    /\ q # Idle
    /\ q.done
    /\ q.max_depth = Q_MAX
    /\ q.pushes >= Q_MAX
    /\ q.cut_with_captures

(***************************************************************************)
(* get_game_phase on a chess.Board                                         *)
(***************************************************************************)
MaxKnights == 4
MaxBishops == 4
MaxRooks == 4
MaxQueens == 5
MaxPawns == 2

\* for square in chess.SQUARES: the sum of f[lo], ..., f[hi], by halves
RECURSIVE SumOver(_, _, _)
SumOver(f, lo, hi) ==
    IF lo > hi THEN 0
    ELSE IF lo = hi THEN f[lo]
    ELSE SumOver(f, lo, (lo + hi) \div 2) + SumOver(f, (lo + hi) \div 2 + 1, hi)

CountedInPhase_AllButKing(pt) == pt # KING
\* line 86: if piece.piece_type in (chess.KING, chess.PAWN): continue
CountedInPhase(pt) == pt \notin {KING, PAWN}
\* lines 81-88: material
PhaseMaterial(b) ==
    SumOver([s \in SQUARES |->
              IF piece_at(b, s) = Empty THEN 0
              ELSE IF ~CountedInPhase(TypeOf(piece_at(b, s))) THEN 0
              ELSE VALEURS_PIECES(TypeOf(piece_at(b, s)))], 0, 63)
\* lines 90-97
PhaseOf(material) ==
    IF material >= 5800 THEN "ouverture"
    ELSE IF material >= 3200 THEN "milieu"
    ELSE IF material >= 1300 THEN "fin"
    ELSE "finfin"
\* get_game_phase(board) on a chess.Board
game_phase(b) == PhaseOf(PhaseMaterial(b))

\* the type of the i-th piece (from 0) of a line-up of nn knights, nb
\* bishops, nr rooks and then queens
LineupType(i, nn, nb, nr) ==
    IF i < nn THEN KNIGHT ELSE IF i < nn + nb THEN BISHOP ELSE IF i < nn + nb + nr THEN ROOK ELSE QUEEN
\* a board with the kings at home, np pawns a side on their second ranks, and
\* the line-up on the ranks between, White and Black in turn
PhaseBoard(nn, nb, nr, nq, np, turn) ==
    SetBoard({<<4, "K">>, <<60, "k">>}
             \cup { <<8 + k, "P">> : k \in 0..(np - 1) }
             \cup { <<48 + k, "p">> : k \in 0..(np - 1) }
             \cup { <<16 + i, Symbol(LineupType(i, nn, nb, nr), i % 2 = 0)>> : i \in 0..(nn + nb + nr + nq - 1) },
             turn, {}, NoSquare)
PhaseBoards ==
    { PhaseBoard(nn, nb, nr, nq, np, WHITE) :
        nn \in 0..MaxKnights, nb \in 0..MaxBishops, nr \in 0..MaxRooks, nq \in 0..MaxQueens,
        np \in 0..MaxPawns }

PhaseInit ==
    /\ board \in PhaseBoards
    /\ out = Idle
    /\ cle = {} /\ hply = 0
    /\ partie = Idle /\ gboard = Idle /\ ia = Idle /\ driver = "phase"
    /\ nb_coups = 0 /\ last = Idle /\ q = Idle /\ mem = Idle
\* phase = get_game_phase(board)
PhaseCall ==
    /\ out = Idle
    /\ out' = [phase |-> game_phase(board)]
    /\ UNCHANGED <<hvars, svars, q, mem>>
PhaseNext == PhaseCall
SpecPhase == PhaseInit /\ [][PhaseNext]_vars

\* the number of pieces of a type on the board, and the value of the
\* knights, bishops, rooks and queens of both sides
CountType(b, pt) == Cardinality({ s \in SQUARES : piece_at(b, s) \in {WhiteSyms[pt], BlackSyms[pt]} })
MinorMajorValue(b) ==
    320 * CountType(b, KNIGHT) + 330 * CountType(b, BISHOP)
    + 500 * CountType(b, ROOK) + 900 * CountType(b, QUEEN)
\* C12: the phase depends only on the summed values of the knights, bishops,
\* rooks and queens of both sides (kings and pawns are not counted): 5800 and
\* more is the opening, 3200..5799 the middlegame, 1300..3199 the endgame,
\* less than 1300 the late endgame.
C12_PhaseByMinorMajorMaterial ==
    out # Idle =>
        /\ MinorMajorValue(board) >= 5800 => out.phase = "ouverture"
        /\ MinorMajorValue(board) \in 3200..5799 => out.phase = "milieu"
        /\ MinorMajorValue(board) \in 1300..3199 => out.phase = "fin"
        /\ MinorMajorValue(board) < 1300 => out.phase = "finfin"
\* two knights, two bishops (1300) and four pawns: the endgame, although the
\* material without the pawns is on the boundary
C12_Witness ==
    /\ out # Idle
    /\ MinorMajorValue(board) = 1300
    /\ CountType(board, PAWN) = 4
    /\ out.phase = "fin"

(***************************************************************************)
(* evaluate on a chess.Board.  mem holds what memoire.json gave: WEIGHTS   *)
(* (feature name -> weight) and TABLES (piece type -> 64 bonuses).         *)
(***************************************************************************)
MaxEvalPlies == 1

\* board.pieces(piece_type, color)
pieces(b, pt, color) == { s \in SQUARES : piece_at(b, s) = Symbol(pt, color) }
\* board.is_checkmate(), board.is_stalemate()
is_checkmate(b) == InCheck(b.sq, b.turn) /\ legal_moves(b) = {}
is_stalemate(b) == ~InCheck(b.sq, b.turn) /\ legal_moves(b) = {}
\* BB_DARK_SQUARES
DarkSquare(s) == (square_file(s) + square_rank(s)) % 2 = 0
\* board.has_insufficient_material(color)
has_insufficient_material(b, color) ==
    LET own(pt) == pieces(b, pt, color) # {}
        any(pt) == pieces(b, pt, WHITE) \cup pieces(b, pt, BLACK)
        bishops == any(BISHOP)
    IN  IF own(PAWN) \/ own(ROOK) \/ own(QUEEN) THEN FALSE
        ELSE IF own(KNIGHT)
        THEN /\ Cardinality({ s \in SQUARES : OwnAt(b, s, color) }) <= 2
             /\ ~\E s \in SQUARES : OwnAt(b, s, ~color) /\ TypeOf(piece_at(b, s)) \notin {KING, QUEEN}
        ELSE IF own(BISHOP)
        THEN /\ (\A s \in bishops : DarkSquare(s)) \/ (\A s \in bishops : ~DarkSquare(s))
             /\ any(PAWN) = {} /\ any(KNIGHT) = {}
        ELSE TRUE
\* board.is_insufficient_material()
is_insufficient_material(b) ==
    has_insufficient_material(b, WHITE) /\ has_insufficient_material(b, BLACK)
\* board.has_legal_en_passant()
has_legal_en_passant(b) ==
    b.ep_square # NoSquare /\ \E m \in legal_moves(b) : is_en_passant(b, m)
\* board._transposition_key()
TranspositionKey(b) ==
    <<b.sq, b.turn, clean_castling_rights(b),
      IF has_legal_en_passant(b) THEN b.ep_square ELSE NoSquare>>
\* board.is_irreversible(move): a pawn move, a capture, a move that costs a
\* castling right, or a move made while en passant was possible
is_irreversible(b, m) ==
    \/ TypeOf(piece_at(b, m.from_square)) = PAWN
    \/ is_capture(b, m)
    \/ clean_castling_rights(push(b, m)) # clean_castling_rights(b)
    \/ has_legal_en_passant(b)
\* board.is_repetition(count): the moves are taken back one by one until an
\* irreversible move, counting the positions with the key of the present one
RECURSIVE Unwind(_, _, _)
Unwind(b, key, count) ==
    IF count <= 1 THEN TRUE
    ELSE IF Len(b.move_stack) < count - 1 THEN FALSE
    ELSE IF is_irreversible(pop(b), b.move_stack[Len(b.move_stack)]) THEN FALSE
    ELSE Unwind(pop(b), key, IF TranspositionKey(pop(b)) = key THEN count - 1 ELSE count)
is_repetition(b, count) == Unwind(b, TranspositionKey(b), count)

\* square ^ 56: the three rank bits of the square are flipped
Xor56(s) == Sq(square_file(s), 7 - square_rank(s))
get_position_value_SameIndex(t, pt, square, color) == t[pt][square]
\* get_position_value(piece_type, square, color), with TABLES = t
get_position_value(t, pt, square, color) ==
    IF color = WHITE THEN t[pt][Xor56(square)] ELSE t[pt][square]
\* sign = 1 if color == board.turn else -1
Sign(b, color) == IF color = b.turn THEN 1 ELSE -1
_feature_material(b) ==
    SumOver([s \in SQUARES |->
              IF piece_at(b, s) = Empty THEN 0
              ELSE Sign(b, ColorOf(piece_at(b, s))) * VALEURS_PIECES(TypeOf(piece_at(b, s)))], 0, 63)
_feature_psqt(b, t) ==
    SumOver([s \in SQUARES |->
              IF piece_at(b, s) = Empty THEN 0
              ELSE Sign(b, ColorOf(piece_at(b, s)))
                   * get_position_value(t, TypeOf(piece_at(b, s)), s, ColorOf(piece_at(b, s)))], 0, 63)
_feature_mobility(b) == Cardinality(legal_moves(b))
\* lines 257-281: what one pawn of `color` on sq adds, before the sign
PawnScore(b, color, sq, phase) ==
    LET f == square_file(sq)
        r == square_rank(sq)
        pawns == pieces(b, PAWN, color)
        neighbors == { c \in {f - 1, f + 1} : 0 <= c /\ c <= 7 }
        doubled == Cardinality({ p \in pawns : square_file(p) = f }) > 1
        isolated == ~\E p \in pawns : square_file(p) \in neighbors
        blocked == \E eq \in pieces(b, PAWN, ~color) :
                      /\ square_file(eq) \in ({f} \cup neighbors)
                      /\ \/ color = WHITE /\ square_rank(eq) > r
                         \/ color = BLACK /\ square_rank(eq) < r
        advance == IF color = WHITE THEN r ELSE 7 - r
    IN  (IF doubled THEN -20 ELSE 0) + (IF isolated THEN -15 ELSE 0)
        + (IF blocked THEN 0
           ELSE IF phase \in {"fin", "finfin"} THEN 20 + advance * 20 ELSE 10 + advance * 8)
_feature_pawn_structure(b) ==
    SumOver([s \in SQUARES |->
              IF piece_at(b, s) \notin {"P", "p"} THEN 0
              ELSE Sign(b, ColorOf(piece_at(b, s)))
                   * PawnScore(b, ColorOf(piece_at(b, s)), s, game_phase(b))], 0, 63)
\* lines 341-352: the value of the pieces of a side, its king apart
SideMaterial(b, color) ==
    SumOver([s \in SQUARES |->
              IF OwnAt(b, s, color) /\ TypeOf(piece_at(b, s)) # KING
              THEN VALEURS_PIECES(TypeOf(piece_at(b, s))) ELSE 0], 0, 63)
\* lines 315-357: what the king of `color` adds, before the sign
KingScore(b, color, phase) ==
    LET king_sq == KingSquare(b.sq, color)
        enemy_king == KingSquare(b.sq, ~color)
        kf == square_file(king_sq)
        kr == square_rank(king_sq)
        shield_ranks == IF color = WHITE THEN {kr + 1, kr + 2} ELSE {kr - 1, kr - 2}
        shield_files == { f \in {kf - 1, kf, kf + 1} : 0 <= f /\ f <= 7 }
        shield == Cardinality({ sq \in pieces(b, PAWN, color) :
                                  square_file(sq) \in shield_files /\ square_rank(sq) \in shield_ranks })
        \* abs(kf - 3.5) + abs(kr - 3.5) is a whole number: twice it is
        \* |2 kf - 7| + |2 kr - 7|, so int((7 - center_dist) * 8) is exact
        center_dist2 == Abs(2 * kf - 7) + Abs(2 * kr - 7)
        dist_kings == Abs(kf - square_file(enemy_king)) + Abs(kr - square_rank(enemy_king))
    IN  IF king_sq = NoSquare THEN 0
        ELSE IF phase \in {"ouverture", "milieu"} THEN -((3 - Min2(shield, 3)) * 18)
        ELSE (14 - center_dist2) * 4
             + (IF enemy_king = NoSquare THEN 0
                ELSE IF SideMaterial(b, color) >= SideMaterial(b, ~color)
                THEN (14 - dist_kings) * 5 ELSE dist_kings * 3)
_feature_king_safety(b) ==
    Sign(b, b.turn) * KingScore(b, b.turn, game_phase(b))
    + Sign(b, ~b.turn) * KingScore(b, ~b.turn, game_phase(b))
\* lines 379-386: what the rooks of `color` add, before the sign
RookScore(b, color) ==
    SumOver([s \in SQUARES |->
              IF piece_at(b, s) # Symbol(ROOK, color) THEN 0
              ELSE IF \E p \in pieces(b, PAWN, color) : square_file(p) = square_file(s) THEN 0
              ELSE IF \E p \in pieces(b, PAWN, ~color) : square_file(p) = square_file(s) THEN 10
              ELSE 20], 0, 63)
_feature_rook_open_file(b) ==
    Sign(b, b.turn) * RookScore(b, b.turn) + Sign(b, ~b.turn) * RookScore(b, ~b.turn)
_feature_bishop_pair(b) ==
    (IF Cardinality(pieces(b, BISHOP, b.turn)) >= 2 THEN Sign(b, b.turn) * 30 ELSE 0)
    + (IF Cardinality(pieces(b, BISHOP, ~b.turn)) >= 2 THEN Sign(b, ~b.turn) * 30 ELSE 0)
\* FEATURE_FUNCTIONS
FEATURE_NAMES ==
    <<"material", "psqt", "mobility", "pawn_structure", "king_safety", "rook_open_file", "bishop_pair">>
FeatureValue(k, b, t) ==
    CASE k = "material" -> _feature_material(b)
      [] k = "psqt" -> _feature_psqt(b, t)
      [] k = "mobility" -> _feature_mobility(b)
      [] k = "pawn_structure" -> _feature_pawn_structure(b)
      [] k = "king_safety" -> _feature_king_safety(b)
      [] k = "rook_open_file" -> _feature_rook_open_file(b)
      [] k = "bishop_pair" -> _feature_bishop_pair(b)
\* extract_features(board): the features that have a weight
extract_features(b, w, t) ==
    [k \in { FEATURE_NAMES[i] : i \in 1..Len(FEATURE_NAMES) } \cap DOMAIN w |-> FeatureValue(k, b, t)]
\* sum(WEIGHTS.get(k, 1.0) * v for k, v in features.items())
WeightedSum(w, features) ==
    SumOver([i \in 0..(Len(FEATURE_NAMES) - 1) |->
              IF FEATURE_NAMES[i + 1] \in DOMAIN features
              THEN w[FEATURE_NAMES[i + 1]] * features[FEATURE_NAMES[i + 1]] ELSE 0],
          0, Len(FEATURE_NAMES) - 1)
RepetitionPenalty_Flat(phase) == -80
\* lines 485-488: the penalty of a position that has occurred before
RepetitionPenalty(phase) == IF phase \in {"fin", "finfin"} THEN -200 ELSE -80
evaluate_board_RepetitionFirst(b, w, t) ==
    IF is_checkmate(b) THEN -100000
    ELSE IF is_repetition(b, 2)
    THEN RepetitionPenalty(game_phase(b))
    ELSE IF is_stalemate(b) \/ is_insufficient_material(b) THEN 0
    ELSE WeightedSum(w, extract_features(b, w, t))
\* evaluate(board) on a chess.Board, with WEIGHTS = w and TABLES = t
evaluate_board(b, w, t) ==
    IF is_checkmate(b) THEN -100000
    ELSE IF is_stalemate(b) \/ is_insufficient_material(b) THEN 0
    ELSE IF is_repetition(b, 2)
    THEN RepetitionPenalty(game_phase(b))
    ELSE WeightedSum(w, extract_features(b, w, t))

\* The position with the colours swapped, the ranks flipped and the other
\* side to move, its history with it
SwapCase(sym) == IF sym = Empty THEN Empty ELSE Symbol(TypeOf(sym), ~ColorOf(sym))
MirrorState(x) ==
    [sq |-> [s \in SQUARES |-> SwapCase(x.sq[Xor56(s)])],
     turn |-> ~x.turn,
     castling_rights |-> { Xor56(r) : r \in x.castling_rights },
     ep_square |-> IF x.ep_square = NoSquare THEN NoSquare ELSE Xor56(x.ep_square)]
MirrorMove(m) == Move(Xor56(m.from_square), Xor56(m.to_square), m.promotion)
Mirror(b) ==
    [sq |-> MirrorState(b).sq, turn |-> ~b.turn,
     castling_rights |-> MirrorState(b).castling_rights,
     ep_square |-> MirrorState(b).ep_square,
     move_stack |-> [i \in 1..Len(b.move_stack) |-> MirrorMove(b.move_stack[i])],
     stack |-> [i \in 1..Len(b.stack) |-> MirrorState(b.stack[i])]]

\* rnbqkbnr/pppppppp/8/8/8/8/PPPPPPPP/RNBQKBNR w KQkq -
BoardStart ==
    SetBoard({<<0, "R">>, <<1, "N">>, <<2, "B">>, <<3, "Q">>, <<4, "K">>, <<5, "B">>, <<6, "N">>, <<7, "R">>,
              <<56, "r">>, <<57, "n">>, <<58, "b">>, <<59, "q">>, <<60, "k">>, <<61, "b">>, <<62, "n">>, <<63, "r">>}
             \cup { <<8 + f, "P">> : f \in 0..7 } \cup { <<48 + f, "p">> : f \in 0..7 },
             WHITE, {A1, H1, A8, H8}, NoSquare)
\* 7k/6Q1/6K1/8/8/8/8/8 b - -           (Black is checkmated)
BoardMate == SetBoard({<<46, "K">>, <<54, "Q">>, <<63, "k">>}, BLACK, {}, NoSquare)
\* 7k/5Q2/6K1/8/8/8/8/8 b - -           (Black is stalemated)
BoardStale == SetBoard({<<46, "K">>, <<53, "Q">>, <<63, "k">>}, BLACK, {}, NoSquare)
\* 7k/8/8/8/8/8/8/K7 w - -              (bare kings)
BoardBare == SetBoard({<<0, "K">>, <<63, "k">>}, WHITE, {}, NoSquare)
\* the bare kings after Ka1-b1 Kh8-g8 Kb1-a1 Kg8-h8: the position is back
BoardBareAgain ==
    push(push(push(push(BoardBare, Move(0, 1, 0)), Move(63, 62, 0)), Move(1, 0, 0)), Move(62, 63, 0))
\* 4k3/8/8/8/8/8/8/1N2K3 b - -          (a lone knight)
BoardKnight == SetBoard({<<1, "N">>, <<4, "K">>, <<60, "k">>}, BLACK, {}, NoSquare)
\* 4kb2/8/8/8/8/8/8/2B1K3 w - -         (bishops on squares of one colour)
BoardBishops == SetBoard({<<2, "B">>, <<4, "K">>, <<60, "k">>, <<61, "b">>}, WHITE, {}, NoSquare)
\* 2b1k3/8/8/8/8/8/8/2B1K3 w - -        (bishops on squares of both colours)
BoardOppositeBishops == SetBoard({<<2, "B">>, <<4, "K">>, <<60, "k">>, <<58, "b">>}, WHITE, {}, NoSquare)
\* the rook walks Ra1-a2 Rh8-h7 Ra2-a1 Rh7-h8 from 4k2r/8/8/8/8/8/8/R3K3 w - -
BoardRooksAgain ==
    push(push(push(push(SetBoard({<<0, "R">>, <<4, "K">>, <<60, "k">>, <<63, "r">>}, WHITE, {}, NoSquare),
                        Move(0, 8, 0)), Move(63, 55, 0)), Move(8, 0, 0)), Move(55, 63, 0))
\* 4k2r/p1p5/8/2P5/2P3p1/8/6P1/R3K3 w Qk -   (doubled, isolated, passed pawns)
BoardPawns ==
    SetBoard({<<0, "R">>, <<4, "K">>, <<14, "P">>, <<26, "P">>, <<34, "P">>,
              <<60, "k">>, <<63, "r">>, <<48, "p">>, <<50, "p">>, <<30, "p">>},
             WHITE, {A1, H8}, NoSquare)
\* r4rk1/5pp1/2n2n1p/8/8/5B2/5PPP/R1B2RK1 b - -   (a middlegame)
BoardMiddle ==
    SetBoard({<<0, "R">>, <<2, "B">>, <<5, "R">>, <<6, "K">>, <<21, "B">>,
              <<13, "P">>, <<14, "P">>, <<15, "P">>,
              <<56, "r">>, <<61, "r">>, <<62, "k">>, <<42, "n">>, <<45, "n">>,
              <<53, "p">>, <<54, "p">>, <<47, "p">>},
             BLACK, {}, NoSquare)
\* the knights walk Nb1-c3 Nb8-c6 Nc3-b1 Nc6-b8 from the starting position
BoardStartAgain ==
    push(push(push(push(BoardStart, Move(1, 18, 0)), Move(57, 42, 0)), Move(18, 1, 0)), Move(42, 57, 0))
\* the middlegame after Nc6-b8 Bf3-e2 Nb8-c6 Be2-f3
BoardMiddleAgain ==
    push(push(push(push(BoardMiddle, Move(42, 57, 0)), Move(21, 12, 0)), Move(57, 42, 0)), Move(12, 21, 0))
\* the queens walk Qb1-b2 Qg8-f8 Qb2-b1 Qf8-g8 from 4k1q1/8/8/8/8/8/8/1Q2K3 w - -
BoardQueensAgain ==
    push(push(push(push(SetBoard({<<1, "Q">>, <<4, "K">>, <<60, "k">>, <<62, "q">>}, WHITE, {}, NoSquare),
                        Move(1, 9, 0)), Move(62, 61, 0)), Move(9, 1, 0)), Move(61, 62, 0))
EvalBoards ==
    {BoardDoublePush, BoardPromotion, BoardEnPassant, BoardStart, BoardMate, BoardStale, BoardBare, BoardBareAgain, BoardKnight,
                      BoardBishops, BoardOppositeBishops, BoardRooksAgain, BoardPawns, BoardMiddle,
                      BoardStartAgain, BoardMiddleAgain, BoardQueensAgain}

\* weights of whole numbers: all features at 1, all features at different
\* weights, and a mapping that lacks features
WeightsOne == [k \in { FEATURE_NAMES[i] : i \in 1..Len(FEATURE_NAMES) } |-> 1]
WeightsMixed ==
    [material |-> 1, psqt |-> 2, mobility |-> 3, pawn_structure |-> -1,
     king_safety |-> 2, rook_open_file |-> 4, bishop_pair |-> 5]
WeightsFew == [material |-> 1, mobility |-> 2]
\* tables: no bonus anywhere, and a bonus that differs from rank to rank and
\* from piece to piece
TablesFlat == [pt \in PAWN..KING |-> [s \in SQUARES |-> 0]]
TablesSkew == [pt \in PAWN..KING |-> [s \in SQUARES |-> ((3 * s + 5 * pt) % 17) - 8]]

EvalInit ==
    /\ board \in EvalBoards
    /\ mem \in {[WEIGHTS |-> WeightsOne, TABLES |-> TablesFlat],
                [WEIGHTS |-> WeightsMixed, TABLES |-> TablesSkew],
                [WEIGHTS |-> WeightsFew, TABLES |-> TablesSkew]}
    /\ out = Idle
    /\ cle = {} /\ hply = 0
    /\ partie = Idle /\ gboard = Idle /\ ia = Idle /\ driver = "evaluate"
    /\ nb_coups = 0 /\ last = Idle /\ q = Idle
\* board.push(move)
EvalPush ==
    /\ hply < MaxEvalPlies
    /\ \E m \in legal_moves(board) : board' = push(board, m)
    /\ hply' = hply + 1
    /\ out' = Idle
    /\ UNCHANGED <<cle, svars, q, mem>>
\* score = evaluate(board), and the score of the mirrored position
EvalCall ==
    /\ out = Idle
    /\ out' = [score |-> evaluate_board(board, mem.WEIGHTS, mem.TABLES),
               mirror |-> evaluate_board(Mirror(board), mem.WEIGHTS, mem.TABLES)]
    /\ UNCHANGED <<hvars, svars, q, mem>>
EvalNext == EvalPush \/ EvalCall
SpecEval == EvalInit /\ [][EvalNext]_vars

\* C13: evaluate is exactly -100000 when the side to move is checkmated and
\* exactly 0 on stalemate or insufficient material, whatever the weights,
\* the tables and the repetitions of the position.
C13_TerminalScoresFirst ==
    out # Idle =>
        /\ is_checkmate(board) => out.score = -100000
        /\ ~is_checkmate(board) /\ (is_stalemate(board) \/ is_insufficient_material(board))
              => out.score = 0
\* bare kings in a position that has occurred before: 0, not the penalty
C13_Witness ==
    /\ out # Idle
    /\ is_insufficient_material(board)
    /\ is_repetition(board, 2)
    /\ out.score = 0

\* C16: evaluate gives a position and its mirror image (colours swapped,
\* ranks flipped, the other side to move) the same score, and the
\* piece-square tables give a white piece on s the bonus of a black piece of
\* the same type on s XOR 56.
C16_EvaluateMirrorSymmetric ==
    /\ out # Idle => out.score = out.mirror
    /\ mem # Idle =>
          \A pt \in PAWN..KING, s \in SQUARES :
              get_position_value(mem.TABLES, pt, s, WHITE)
                  = get_position_value(mem.TABLES, pt, Xor56(s), BLACK)
\* a position with castling rights, reached by a move, scored by the features
\* with tables that differ from rank to rank
C16_Witness ==
    /\ out # Idle
    /\ hply = 1
    /\ mem.TABLES = TablesSkew /\ mem.WEIGHTS = WeightsMixed
    /\ clean_castling_rights(board) # {}
    /\ ~is_repetition(board, 2)
    /\ out.score \notin {0, -100000}
    /\ out.score = out.mirror

(***************************************************************************)
(* The weights store (gestion_memoire.py) and the learning step.  Weights  *)
(* are counted in tenths: DEFAULT_WEIGHTS holds 1.0 and 0.1.               *)
(***************************************************************************)
MaxLearns == 3
WEIGHT_CLAMP == 50
Tenths(x) == 10 * x
DEFAULT_WEIGHTS ==
    [material |-> 10, psqt |-> 10, mobility |-> 1, pawn_structure |-> 10,
     king_safety |-> 10, rook_open_file |-> 10, bishop_pair |-> 10]
_sane_weights_AtBound(weights) ==
    IF \E k \in DOMAIN weights : Abs(weights[k]) >= Tenths(WEIGHT_CLAMP)
    THEN DEFAULT_WEIGHTS ELSE weights
\* _sane_weights(weights): abs(v) > WEIGHT_CLAMP for some weight resets all
_sane_weights(weights) ==
    IF \E k \in DOMAIN weights : Abs(weights[k]) > Tenths(WEIGHT_CLAMP)
    THEN DEFAULT_WEIGHTS ELSE weights
\* load_memoire(): WEIGHTS = _sane_weights(memoire["WEIGHTS"])
load_memoire(file) == _sane_weights(file)
ClampWeight_Kept(v) == v
\* max(-WEIGHT_CLAMP, min(WEIGHT_CLAMP, v))
ClampWeight(v) == Max2(-Tenths(WEIGHT_CLAMP), Min2(Tenths(WEIGHT_CLAMP), v))
\* save_memoire(): the weights written to memoire.json
save_memoire(weights) == [k \in DOMAIN weights |-> ClampWeight(weights[k])]
\* lines 569-571: WEIGHTS[k] += lr * error * features[k], step = lr * error
\* in fiftieths (the error lies in [-2, 2] and lr is 0.01)
Adjust(weights, features, step) ==
    [k \in DOMAIN weights |->
        IF k \in DOMAIN features THEN weights[k] + (step * features[k]) \div 5 ELSE weights[k]]
\* learn_from_position(board, result, coup): the WEIGHTS after the call
learn_from_position(weights, features, step, important) ==
    IF important THEN Adjust(Adjust(weights, features, step), features, step)
    ELSE Adjust(weights, features, step)

\* the weights a memoire.json may hold when the program starts: the
\* defaults, a sane file of two features, files with a weight beyond the clamp
StartFiles ==
    {DEFAULT_WEIGHTS,
     [material |-> 500, mobility |-> -500],
     [material |-> 501, mobility |-> 3],
     [material |-> 12, mobility |-> -501],
     [DEFAULT_WEIGHTS EXCEPT !.king_safety = -9000]}
\* the features of the positions learnt from (multiples of 5)
LearnFeatures ==
    {[material |-> 1000, psqt |-> 35, mobility |-> 30, pawn_structure |-> -45,
      king_safety |-> 0, rook_open_file |-> 20, bishop_pair |-> 30],
     [material |-> -320, psqt |-> -10, mobility |-> 5, pawn_structure |-> 90,
      king_safety |-> -55, rook_open_file |-> 0, bishop_pair |-> -30]}

\* the module is imported: memoire.json is read, WEIGHTS are loaded; saved is
\* what WEIGHTS held in memory when save_memoire() last ran
MemInit ==
    /\ \E file \in StartFiles :
          mem = [file |-> file, WEIGHTS |-> load_memoire(file), op |-> "load", learns |-> 0,
                 saved |-> Idle]
    /\ out = Idle
    /\ board = Idle /\ cle = {} /\ hply = 0
    /\ partie = Idle /\ gboard = Idle /\ ia = Idle /\ driver = "memoire"
    /\ nb_coups = 0 /\ last = Idle /\ q = Idle
\* a new process imports the module
MemLoad ==
    /\ mem.op # "load"
    /\ mem' = [mem EXCEPT !.WEIGHTS = load_memoire(mem.file), !.op = "load"]
    /\ UNCHANGED <<hvars, svars, q, out>>
\* learn_from_position(...) on the features that have a weight; it ends with
\* save_memoire()
MemLearn ==
    /\ mem.learns < MaxLearns
    /\ \E f \in LearnFeatures, step \in {-1, 1}, important \in BOOLEAN :
          \E w \in {learn_from_position(mem.WEIGHTS, [k \in DOMAIN f \cap DOMAIN mem.WEIGHTS |-> f[k]],
                                            step, important)} :
              mem' = [file |-> save_memoire(w), WEIGHTS |-> w, op |-> "learn",
                      learns |-> mem.learns + 1, saved |-> w]
    /\ UNCHANGED <<hvars, svars, q, out>>
\* save_memoire() at the end of a game
MemSave ==
    /\ mem.op # "save"
    /\ mem' = [mem EXCEPT !.file = save_memoire(mem.WEIGHTS), !.op = "save",
                           !.saved = mem.WEIGHTS]
    /\ UNCHANGED <<hvars, svars, q, out>>
MemNext == MemLoad \/ MemLearn \/ MemSave
SpecMem == MemInit /\ [][MemNext]_vars

Within(weights) == \A k \in DOMAIN weights : -500 <= weights[k] /\ weights[k] <= 500
\* C14: after any sequence of load, learn and save, the weights a load
\* delivers and the weights a save writes are within [-50, 50]; a load that
\* finds a weight beyond 50 delivers the defaults for all weights, and a save
\* writes each weight clamped to [-50, 50].
C14_StoredAndLoadedWeightsBounded ==
    /\ mem.op = "load" =>
          /\ Within(mem.WEIGHTS)
          /\ mem.WEIGHTS = (IF Within(mem.file) THEN mem.file ELSE DEFAULT_WEIGHTS)
    /\ mem.op \in {"learn", "save"} =>
          /\ Within(mem.file)
          /\ DOMAIN mem.file = DOMAIN mem.WEIGHTS
          /\ \A k \in DOMAIN mem.file :
                mem.file[k] = (IF mem.WEIGHTS[k] > 500 THEN 500
                               ELSE IF mem.WEIGHTS[k] < -500 THEN -500 ELSE mem.WEIGHTS[k])
\* a learning step has carried a weight in memory beyond the clamp, and the
\* file holds it clamped
C14_Witness ==
    /\ mem.op = "learn"
    /\ \E k \in DOMAIN mem.WEIGHTS : mem.WEIGHTS[k] > 500 /\ mem.file[k] = 500

(***************************************************************************)
(* More properties of the players and of alpha_beta                        *)
(***************************************************************************)
\* C15: with two player instances on one board, the transposition table of
\* each holds only keys made from that player's own Zobrist tables, and every
\* alpha_beta node of a search probes and stores under such a key.
C15_TableKeyedByOwnHasher ==
    /\ \A pl \in BOOLEAN : \A i \in 1..Len(ia[pl].TT) : OwnKey(pl, ia[pl].TT[i].cle)
    /\ Searched => last.st.keys_own
\* both players have searched, and the player of the last coup came back to
\* the table its earlier search had filled
C15_Witness ==
    /\ Searched
    /\ last.table # <<>>
    /\ last.st.tt_probes > 0
    /\ ia[WHITE].TT # <<>> /\ ia[BLACK].TT # <<>>

\* the move leads to a position in which the side to move is checkmated
DeliversMate(m) == m # NoneMove /\ partie.pos[m.to].kind = "checkmate"
MateInOne(b) == \E i \in 1..Len(LegalMoves(b)) : DeliversMate(LegalMoves(b)[i])
BoardRooksAndPawns ==
    SetBoard({<<0, "R">>, <<4, "K">>, <<11, "P">>, <<60, "k">>, <<63, "r">>, <<28, "p">>},
             WHITE, {}, NoSquare)
\* line 755: null_cle = cle ^ ZT
null_cle(key) == Xor(key, ZOBRIST_TOUR)
NullInit ==
    /\ board \in StartBoards \cup {BoardRooksAndPawns}
    /\ cle = hash_zobrist(board)
    /\ hply = 0
    /\ partie = Idle /\ gboard = Idle /\ ia = Idle /\ driver = "null"
    /\ nb_coups = 0 /\ last = Idle /\ q = Idle
    /\ out = Idle /\ mem = Idle
\* lines 750-756: the null move is tried (null_allowed is False only in the
\* search below a null move; the depth is left open)
NullPush ==
    /\ hply < MaxPlies
    /\ IF board.move_stack = <<>> THEN TRUE
       ELSE board.move_stack[Len(board.move_stack)] # NullMove
    /\ ~InCheck(board.sq, board.turn)
    /\ \E pt \in {KNIGHT, BISHOP, ROOK, QUEEN} : pieces(board, pt, board.turn) # {}
    /\ cle' = null_cle(cle)
    /\ board' = push(board, NullMove)
    /\ hply' = hply + 1
    /\ UNCHANGED <<svars, q, pvars>>
NullNext == HashPush \/ NullPush
SpecNull == NullInit /\ [][NullNext]_vars

\* C18: after a null move the key handed to the child search is the old key
\* XORed with the side key, without the key of an en-passant file the old
\* position had, which is hash_zobrist of the position after the null move;
\* with update_cle, the key of every search node is the full hash of its
\* position.
C18_NullKeyIsFullHash ==
    /\ cle = hash_zobrist(board)
    /\ (board.move_stack # <<>> /\ LastMove = NullMove) =>
          cle = Xor(XorIf(BoardBefore.ep_square # NoSquare, hash_zobrist(BoardBefore),
                          ZOBRIST_EN_PASSANT(square_file(BoardBefore.ep_square))),
                    ZOBRIST_TOUR)

(***************************************************************************)
(* The probe and the store of alpha_beta, seen from the calls of a search  *)
(***************************************************************************)
\* a probe by the rule: c is the call, e the entry found under its key
ProbeByRule(p) ==
    LET c == p.call
        e == p.call.entry
    IN  IF c.found /\ e.profondeur >= c.depth
        THEN CASE e.flag = EXACT -> p.returned /\ p.score = e.score
               [] e.flag = LOWERBOUND ->
                      /\ p.alpha = Max2(c.alpha, e.score) /\ p.beta = c.beta
                      /\ p.returned <=> p.alpha >= p.beta
                      /\ p.returned => p.score = e.score
               [] e.flag = UPPERBOUND ->
                      /\ p.alpha = c.alpha /\ p.beta = Min2(c.beta, e.score)
                      /\ p.returned <=> p.alpha >= p.beta
                      /\ p.returned => p.score = e.score
        ELSE ~p.returned /\ p.alpha = c.alpha /\ p.beta = c.beta

\* C19: at a node of remaining depth d with window [alpha, beta], the entry
\* found under the node's key counts only if its stored depth is >= d: EXACT
\* returns the stored score, LOWERBOUND raises alpha to max(alpha, stored),
\* UPPERBOUND lowers beta to min(beta, stored), and alpha >= beta afterwards
\* returns the stored score; an entry of smaller depth (or no entry) leaves
\* the window as it was and returns nothing.
C19_ProbeUsesEntriesDeepEnough ==
    Searched => \A p \in last.st.probes : ProbeByRule(p)
\* one search met an entry too shallow to use, an EXACT entry deep enough and
\* a bound that moved the window's edge
C19_Witness ==
    /\ Searched
    /\ \E p \in last.st.probes : p.call.found /\ p.call.entry.profondeur < p.call.depth
    /\ \E p \in last.st.probes : /\ p.call.found /\ p.call.entry.profondeur >= p.call.depth
                                 /\ p.call.entry.flag = EXACT
    /\ \E p \in last.st.probes : /\ p.call.found /\ p.call.entry.profondeur >= p.call.depth
                                 /\ p.call.entry.flag # EXACT
                                 /\ (p.alpha # p.call.alpha \/ p.beta # p.call.beta)

\* the flag that goes with best_score in the window (alpha, beta)
FlagFor(best_score, alpha, beta) ==
    IF best_score <= alpha THEN UPPERBOUND
    ELSE IF best_score >= beta THEN LOWERBOUND
    ELSE EXACT
\* C20: a call that finishes its move loop stores (best_score, remaining
\* depth, flag) under its own key, with flag UPPERBOUND if best_score is at
\* most the alpha the call was made with, LOWERBOUND if best_score >= beta,
\* EXACT otherwise.
C20_StoreFlagFromCalledAlpha ==
    Searched => \A s \in last.st.stores :
        /\ s.found
        /\ s.entry.score = s.best_score
        /\ s.entry.profondeur = s.call.depth
        /\ s.entry.flag = FlagFor(s.best_score, s.call.alpha, s.beta)

(***************************************************************************)
(* More properties of quiescence and of the tables of a search             *)
(***************************************************************************)
\* the greatest element of a non-empty set of numbers
MaxOf(S) == CHOOSE x \in S : \A y \in S : y <= x
\* C21: quiescence is fail-hard: a call with alpha < beta returns r with
\* alpha <= r <= beta; r = beta when the stand-pat score or a searched
\* capture scores >= beta, otherwise r is the greatest of alpha, the
\* stand-pat score and the scores of the captures.
C21_QuiescenceFailHard ==
    (q # Idle /\ q.returned # Idle /\ q.returned.alpha < q.returned.beta) =>
        LET c == q.returned
            seen == {c.stand_pat} \cup c.scores
        IN  /\ c.alpha <= c.r /\ c.r <= c.beta
            /\ IF \E x \in seen : x >= c.beta THEN c.r = c.beta
               ELSE c.r = MaxOf({c.alpha} \cup seen)
\* a call that stood below beta, searched a capture that did not cut it off,
\* and was cut off by a later capture
C21_Witness ==
    /\ q # Idle /\ q.returned # Idle
    /\ q.returned.alpha < q.returned.beta
    /\ q.returned.stand_pat < q.returned.beta
    /\ \E x \in q.returned.scores : x < q.returned.beta
    /\ \E x \in q.returned.scores : x >= q.returned.beta
    /\ q.returned.r = q.returned.beta

\* C22: in a root search every killer set holds at most 2 moves, each of
\* them a non-capture at which the move loop of a call of that set's depth
\* broke on alpha >= beta, and killers is only addressed inside its bounds.
C22_KillerSetsSmallAndSound ==
    Searched =>
        /\ last.st.killers_peak <= 2
        /\ last.st.killers_sound
        /\ last.st.killer_index_ok
        /\ \A k \in DOMAIN last.st.killers :
              /\ Cardinality(last.st.killers[k]) <= 2
              /\ \A c \in last.st.killers[k] : <<k - 1, c>> \in last.st.cutoffs
\* a search in which a third quiet move cut off at one depth and a killer
\* was dropped
C22_Witness ==
    /\ Searched
    /\ last.st.killer_evicted
    /\ \E k \in DOMAIN last.st.killers :
          /\ Cardinality(last.st.killers[k]) = 2
          /\ Cardinality({ c \in last.st.cutoffs : c[1] = k - 1 }) >= 3

\* C23: in the move loop of alpha_beta the history entry (side to move,
\* from, to) of a move grows by exactly depth * depth when the move is a
\* non-capture whose score is above the current alpha, and nothing in
\* history changes otherwise; no value of history ever falls during a root
\* search.
C23_HistoryGrowsByDepthSquared ==
    Searched =>
        /\ last.st.history_held
        /\ \A h \in last.st.history_moves :
              h.grew = (IF ~h.capture /\ h.raised THEN h.depth * h.depth ELSE 0)
\* one search saw a quiet move raise alpha at depth 2 or more, a capture
\* raise alpha, a quiet move fail to raise it, and one entry grow twice
C23_Witness ==
    /\ Searched
    /\ \E h \in last.st.history_moves : ~h.capture /\ h.raised /\ h.depth >= 2
    /\ \E h \in last.st.history_moves : h.capture /\ h.raised
    /\ \E h \in last.st.history_moves : ~h.capture /\ ~h.raised
    /\ \E k \in DOMAIN last.st.history :
          \A h \in last.st.history_moves : last.st.history[k] > h.grew

(***************************************************************************)
(* More properties of the iterations of ia_move                            *)
(***************************************************************************)
\* C24: every iteration of depth >= 3 first searches the root in the window
\* [prev_score - 50, prev_score + 50] and falls back to the wide root search
\* whenever a child score reaches the upper bound, or no child score is
\* above prev_score - 50, or the best child score is more than 50 away from
\* prev_score; iterations of depth <= 2 run the wide root search only.
C24_AspirationFallsBackOnFailure ==
    Searched => \A i \in 1..Len(last.log) :
        LET e == last.log[i]
        IN  IF e.depth >= 3
            THEN /\ e.aspiration
                 /\ (\/ e.asp_score >= Plus(e.prev_score, WINDOW)
                     \/ e.asp_score <= Plus(e.prev_score, 0 - WINDOW)
                     \/ FarFromPrev(e.asp_score, e.prev_score)) => e.fallback
            ELSE ~e.aspiration /\ ~e.fallback

\* C25: when an iteration falls back from its aspiration pass to the wide
\* root search, the wide search examines first the best move that the failed
\* aspiration pass of this iteration found.
C25_FallbackSeededWithAspirationBest ==
    Searched => \A i \in 1..Len(last.log) :
        (last.log[i].fallback /\ last.log[i].asp_best # NoneMove) =>
            last.log[i].wide_first = last.log[i].asp_best

\* C26: after each completed iteration elapsed is compared with the time
\* limit of the phase and no further iteration starts once elapsed >=
\* time limit; the iterations run at depths 1, 2, ... in this order and
\* never beyond the depth ceiling.
C26_NoIterationOnceTimeIsUp ==
    Searched =>
        /\ Len(last.log) <= last.depth
        /\ \A i \in 1..Len(last.log) :
              /\ last.log[i].depth = i
              /\ last.log[i].max_time = time_limits(get_game_phase(last.before))
              /\ last.log[i].elapsed = last.elapsed[i]
              /\ i < Len(last.log) => ~(last.log[i].elapsed >= last.log[i].max_time)

\* C27: for a position that is not checkmate, stalemate or insufficient
\* material and has occurred before, evaluate returns -200 in the phases
\* "fin" and "finfin" and -80 in the phases "ouverture" and "milieu",
\* whatever the features and the weights.
C27_RepetitionPenaltyByPhase ==
    (/\ out # Idle
     /\ ~is_checkmate(board) /\ ~is_stalemate(board) /\ ~is_insufficient_material(board)
     /\ is_repetition(board, 2))
        => /\ game_phase(board) \in {"fin", "finfin"} => out.score = -200
           /\ game_phase(board) \in {"ouverture", "milieu"} => out.score = -80
\* a repeated position with the queens left, whose features, with these
\* weights, do not sum to the penalty
C27_Witness ==
    /\ out # Idle
    /\ ~is_checkmate(board) /\ ~is_stalemate(board) /\ ~is_insufficient_material(board)
    /\ is_repetition(board, 2)
    /\ game_phase(board) = "fin"
    /\ mem.WEIGHTS = WeightsMixed
    /\ WeightedSum(mem.WEIGHTS, extract_features(board, mem.WEIGHTS, mem.TABLES)) # -200
    /\ out.score = -200

\* C28: whenever alpha_beta reaches a position where the game is over by a
\* draw rule (stalemate, insufficient material, the 75-move rule, fivefold
\* repetition), it returns the draw score 0.
C28_DrawnPositionsScoreZero ==
    Played =>
        \A o \in last.st.overs :
            (o.kind \in {"stalemate", "insufficient"}
                \/ (o.kind = "play" /\ (o.fivefold \/ o.seventyfive)))
                => o.score = 0

\* C29: with a depth ceiling of at least 1 and no book move, ia_move
\* completes the full-width pass at depth 1 over all root moves before it
\* reads the clock for the first time, so the move it returns is the best
\* move of a completed pass even when that first reading is over the budget.
C29_FirstPassAlwaysCompleted ==
    (Searched /\ last.depth >= 1) =>
        /\ Len(last.log) >= 1
        /\ last.log[1].depth = 1
        /\ ~last.log[1].aspiration
        /\ last.log[1].roots = Len(LegalMoves(last.before))
        /\ last.log[1].iter_best \in MoveSet(last.before)
        /\ \E i \in 1..Len(last.log) : last.move = last.log[i].iter_best
        /\ last.elapsed[1] > last.log[1].max_time =>
              /\ Len(last.log) = 1
              /\ last.move = last.log[1].iter_best
\* the first reading of the clock is over the budget, the ceiling allows
\* more passes, and the move returned, found by the pass at depth 1, is not
\* the first legal move
C29_Witness ==
    /\ Searched
    /\ last.depth >= 2
    /\ last.elapsed[1] > time_limits(get_game_phase(last.before))
    /\ Len(last.log) = 1
    /\ Len(LegalMoves(last.before)) >= 2
    /\ last.log[1].roots = Len(LegalMoves(last.before))
    /\ last.move = last.log[1].iter_best
    /\ last.move # FirstLegal(last.before)

\* C30: saving and reloading never resets the weights to the defaults: after
\* any learning updates, a load that follows a save delivers, for each
\* feature, the weight that was in memory at the save clamped into
\* [-50, 50] (exactly +50 or -50 for a weight beyond the bound), and the save
\* leaves the weights in memory as they were, unclamped.
C30_SaveThenLoadClampsWithoutReset ==
    mem.saved # Idle =>
        /\ mem.op = "load" =>
              /\ DOMAIN mem.WEIGHTS = DOMAIN mem.saved
              /\ \A k \in DOMAIN mem.saved :
                    mem.WEIGHTS[k] = (IF mem.saved[k] > 500 THEN 500
                                      ELSE IF mem.saved[k] < -500 THEN -500
                                      ELSE mem.saved[k])
        /\ mem.op \in {"learn", "save"} => mem.WEIGHTS = mem.saved
\* learning carried a weight beyond the bound; after the save and the load it
\* is exactly 50 and the other weights are not the defaults
C30_Witness ==
    /\ mem.op = "load"
    /\ mem.learns > 0
    /\ mem.saved # Idle
    /\ \E k \in DOMAIN mem.saved : mem.saved[k] > 500 /\ mem.WEIGHTS[k] = 500
    /\ mem.WEIGHTS # DEFAULT_WEIGHTS

====
